---- MODULE Spec2Model ----
(***************************************************************************)
(* A model of the SAS interpreter of sass/Interpreter.cpp: the DATA step   *)
(* (executeDataStep and the statement handlers it dispatches to), the      *)
(* k-way MERGE (executeMerge) and the expression evaluator (evaluate).     *)
(* DataEnvironment, Dataset and Sorter are not among the sources; their    *)
(* operations are modelled from the specification and marked as such.      *)
(***************************************************************************)
EXTENDS Integers, Sequences, FiniteSets, TLC

(***************************************************************************)
(* Bounds of the model.                                                    *)
(***************************************************************************)
MaxBody == 2      \* statements in the body of the first DATA step
MaxRows == 2      \* rows of the input dataset WORK.in
MaxMergeRows == 2 \* rows of each MERGE input
MaxKey == 3       \* BY keys of the MERGE inputs are 1..MaxKey

(***************************************************************************)
(* Value = std::variant<double, std::string>.  A double is either a number *)
(* or the NaN that std::nan("") yields.                                    *)
(***************************************************************************)
Num(n) == [k |-> "num", n |-> n, s |-> ""]
Str(s) == [k |-> "str", n |-> 0, s |-> s]
NaN == [k |-> "nan", n |-> 0, s |-> ""]

holdsDouble(v) == v.k \in {"num", "nan"}

(***************************************************************************)
(* std::map / std::unordered_map as functions with a finite domain.        *)
(***************************************************************************)
EmptyMap == [v \in {} |-> NaN]
Put(m, key, val) == [v \in (DOMAIN m) \cup {key} |-> IF v = key THEN val ELSE m[v]]
Erase(m, keys) == [v \in (DOMAIN m) \ keys |-> m[v]]
Range(seq) == {seq[i] : i \in DOMAIN seq}

(***************************************************************************)
(* AST nodes.                                                              *)
(***************************************************************************)
NumberNode(n) == [node |-> "Number", value |-> Num(n)]
StringNode(s) == [node |-> "String", value |-> Str(s)]
VariableNode(v) == [node |-> "Variable", varName |-> v]
BinaryOpNode(o, l, r) == [node |-> "BinaryOp", op |-> o, left |-> l, right |-> r]
FunctionCallNode(f, args) == [node |-> "FunctionCall", functionName |-> f, arguments |-> args]
ArrayElementNode(a, idx) == [node |-> "ArrayElement", arrayName |-> a, index |-> idx]
NoExpr == [node |-> "null"]

AssignmentNode(v, e) == [node |-> "Assignment", varName |-> v, expression |-> e]
OutputNode == [node |-> "Output"]
IfThenNode(c, th) == [node |-> "IfThen", condition |-> c, thenStatements |-> th]
DropNode(vs) == [node |-> "Drop", variables |-> vs]
KeepNode(vs) == [node |-> "Keep", variables |-> vs]
RetainNode(vs) == [node |-> "Retain", variables |-> vs]
ArrayNode(a, n, vs) == [node |-> "Array", arrayName |-> a, size |-> n, variables |-> vs]
DoNode(v, s, e, inc, body) ==
    [node |-> "Do", loopVar |-> v, startExpr |-> s, endExpr |-> e,
     incrementExpr |-> inc, statements |-> body]
ByStatementNode(vs) == [node |-> "By", variables |-> vs]
MergeStatementNode(ds) == [node |-> "Merge", datasets |-> ds]
DoLoopNode(c, w, b) == [node |-> "DoLoop", condition |-> c, isWhile |-> w, body |-> b]
EndNode == [node |-> "End"]
BlockNode(stmts) == [node |-> "Block", statements |-> stmts]
\* elseIfBranches is a sequence of (condition, statements) pairs
ElseIfBranch(c, stmts) == [condition |-> c, statements |-> stmts]
IfElseIfNode(c, th, elifs, el) ==
    [node |-> "IfElseIf", condition |-> c, thenStatements |-> th,
     elseIfBranches |-> elifs, elseStatements |-> el]
ProcSortNode(in, out, by, where, nodupkey, duplicates) ==
    [node |-> "ProcSort", inputDataSet |-> in, outputDataSet |-> out, byVariables |-> by,
     whereCondition |-> where, nodupkey |-> nodupkey, duplicates |-> duplicates]
DataStepNode(out, in, body) ==
    [node |-> "DataStep", outputDataSet |-> out, inputDataSet |-> in, statements |-> body]

(***************************************************************************)
(* std::stod on the strings of the model: "7" parses, the others throw.    *)
(***************************************************************************)
stodThrows(s) == s # "7"
stod(s) == CASE s = "7" -> 7

toNumber(v) ==
    IF holdsDouble(v) THEN v
    ELSE IF stodThrows(v.s) THEN Num(0) ELSE Num(stod(v.s))

\* d != 0.0 on a double: NaN compares unequal to everything
NonZero(d) == d.k = "nan" \/ d.n # 0
Bool(b) == IF b THEN Num(1) ELSE Num(0)
BothNum(l, r) == l.k = "num" /\ r.k = "num"

BinaryOp(o, l, r) ==
    CASE o = "+" -> IF BothNum(l, r) THEN Num(l.n + r.n) ELSE NaN
      [] o = "-" -> IF BothNum(l, r) THEN Num(l.n - r.n) ELSE NaN
      [] o = "*" -> IF BothNum(l, r) THEN Num(l.n * r.n) ELSE NaN
      [] o = ">" -> Bool(BothNum(l, r) /\ l.n > r.n)
      [] o = "<" -> Bool(BothNum(l, r) /\ l.n < r.n)
      [] o = ">=" -> Bool(BothNum(l, r) /\ l.n >= r.n)
      [] o = "<=" -> Bool(BothNum(l, r) /\ l.n <= r.n)
      [] o = "==" -> Bool(BothNum(l, r) /\ l.n = r.n)
      [] o = "!=" -> Bool(~(BothNum(l, r) /\ l.n = r.n))
      [] o = "and" -> Bool(NonZero(l) /\ NonZero(r))
      [] o = "or" -> Bool(NonZero(l) \/ NonZero(r))

\* static_cast<int> of a double: the value of a NaN is undefined, and the
\* programs of the model index arrays with numbers only
castInt(d) == CASE d.k = "num" -> d.n

\* the trailing whitespace of the strings of the model removed
trim(str) == CASE str = "s " -> "s"
               [] str = " " -> ""
               [] OTHER -> str

\* the first two checks of getArrayElement and of setArrayElement
arrayThrows(this, arrayName, index) ==
    \/ arrayName \notin DOMAIN this.arrays
    \/ index < 1
    \/ index > Len(this.arrays[arrayName])

\* `this` is the interpreter: this.variables is env.variables,
\* this.currentRow is env.currentRow.columns, this.arrays the member arrays
getArrayElement(this, arrayName, index) ==
    LET varName == this.arrays[arrayName][index]
    IN  IF varName \in DOMAIN this.currentRow THEN this.currentRow[varName] ELSE Num(0)

\* the exception an evaluation ends with: "none", "runtime_error", or
\* "bad_variant_access" (std::get<std::string> on a Value holding a double)
RECURSIVE thrown(_, _)
RECURSIVE evaluate(_, _)
thrown(node, this) ==
    CASE node.node \in {"Number", "String", "Variable"} -> "none"
      [] node.node = "FunctionCall" ->
            IF node.functionName # "trim" THEN "runtime_error"
            ELSE IF Len(node.arguments) # 1 THEN "runtime_error"
            ELSE IF thrown(node.arguments[1], this) # "none"
                 THEN thrown(node.arguments[1], this)
            ELSE IF holdsDouble(evaluate(node.arguments[1], this))
                 THEN "bad_variant_access"
            ELSE "none"
      [] node.node = "ArrayElement" ->
            IF thrown(node.index, this) # "none" THEN thrown(node.index, this)
            ELSE IF arrayThrows(this, node.arrayName,
                                castInt(toNumber(evaluate(node.index, this))))
                 THEN "runtime_error"
            ELSE "none"
      [] node.node = "BinaryOp" ->
            IF thrown(node.left, this) # "none" THEN thrown(node.left, this)
            ELSE thrown(node.right, this)
      [] OTHER -> "runtime_error"

\* the value of an evaluation that ends without an exception
evaluate(node, this) ==
    CASE node.node = "Number" -> node.value
      [] node.node = "String" -> node.value
      [] node.node = "Variable" ->
            IF node.varName \in DOMAIN this.variables
            THEN this.variables[node.varName] ELSE NaN
      [] node.node = "FunctionCall" ->
            Str(trim(evaluate(node.arguments[1], this).s))
      [] node.node = "ArrayElement" ->
            getArrayElement(this, node.arrayName,
                            castInt(toNumber(evaluate(node.index, this))))
      [] node.node = "BinaryOp" ->
            BinaryOp(node.op, toNumber(evaluate(node.left, this)),
                              toNumber(evaluate(node.right, this)))

(***************************************************************************)
(* The interpreter state a statement handler reads and writes, as a        *)
(* record: env.currentRow, env.variables, the member Interpreter::         *)
(* retainVars, and the observers outputExecs (calls of executeOutput),     *)
(* snaps (env.currentRow at each call of executeOutput), assigned (the     *)
(* value each executeAssignment stored) and error (a runtime_error is      *)
(* propagating).                                                           *)
(***************************************************************************)
Throw(st) == [st EXCEPT !.error = TRUE]

\* an exception of an evaluation propagating: one that is not a
\* std::runtime_error passes the catch clause of executeProgram
Raise(st, exception) ==
    [st EXCEPT !.error = TRUE, !.fatal = (exception = "bad_variant_access")]

\* DataEnvironment::setVariable is not among the sources.  Modelled from the
\* specification: the assigned value is what a later reference reads
\* (evaluate reads env.variables) and what an emitted row carries
\* (executeDataStep emits env.currentRow).
setVariable(st, varName, val) ==
    [st EXCEPT !.variables = Put(@, varName, val),
               !.currentRow = Put(@, varName, val)]

executeAssignment(st, node) ==
    LET val == evaluate(node.expression, st)
    IN  IF thrown(node.expression, st) # "none" THEN Raise(st, thrown(node.expression, st))
        ELSE [setVariable(st, node.varName, val) EXCEPT !.assigned = Put(@, node.varName, val)]

\* executeOutput only logs; the observers record that it ran and what
\* env.currentRow was at that moment.
executeOutput(st, node) ==
    [st EXCEPT !.outputExecs = @ + 1, !.snaps = Append(@, st.currentRow)]

RECURSIVE thenStatementsFrom(_, _, _)
thenStatementsFrom(st, stmts, i) ==
    IF i > Len(stmts) \/ st.error THEN st
    ELSE LET stmt == stmts[i]
             st1 == CASE stmt.node = "Assignment" -> executeAssignment(st, stmt)
                      [] stmt.node = "Output" -> executeOutput(st, stmt)
                      [] OTHER -> Throw(st)
         IN  thenStatementsFrom(st1, stmts, i + 1)

executeIfThen(st, node) ==
    LET d == toNumber(evaluate(node.condition, st))
    IN  IF thrown(node.condition, st) # "none" THEN Raise(st, thrown(node.condition, st))
        ELSE IF NonZero(d) THEN thenStatementsFrom(st, node.thenStatements, 1) ELSE st

executeDrop(st, node) ==
    [st EXCEPT !.currentRow = Erase(@, Range(node.variables))]

executeKeep(st, node) ==
    [st EXCEPT !.currentRow = Erase(@, (DOMAIN @) \ Range(node.variables))]

\* pushes onto the member Interpreter::retainVars, not onto the local
\* retainVars of executeDataStep
executeRetain(st, node) ==
    [st EXCEPT !.retainVars = @ \o node.variables]

executeArray(st, node) ==
    IF node.size # Len(node.variables) THEN Throw(st)
    ELSE [st EXCEPT !.arrays = Put(@, node.arrayName, node.variables)]

\* no statement handler calls setArrayElement
setArrayElement(st, arrayName, index, value) ==
    IF arrayThrows(st, arrayName, index) THEN Throw(st)
    ELSE [st EXCEPT !.currentRow = Put(@, st.arrays[arrayName][index], value)]

\* env.currentRow.columns[name]: operator[] inserts a default Value, the
\* double 0.0, when the column is absent
Column(row, name) == IF name \in DOMAIN row THEN row[name] ELSE Num(0)

RECURSIVE executeDo(_, _)
RECURSIVE doStatementsFrom(_, _, _)
RECURSIVE doLoop(_, _, _, _)

doStatementsFrom(st, stmts, i) ==
    IF i > Len(stmts) \/ st.error THEN st
    ELSE LET stmt == stmts[i]
             st1 == CASE stmt.node = "Assignment" -> executeAssignment(st, stmt)
                      [] stmt.node = "IfThen" -> executeIfThen(st, stmt)
                      [] stmt.node = "Output" -> executeOutput(st, stmt)
                      [] stmt.node = "Drop" -> executeDrop(st, stmt)
                      [] stmt.node = "Keep" -> executeKeep(st, stmt)
                      [] stmt.node = "Retain" -> executeRetain(st, stmt)
                      [] stmt.node = "Array" -> executeArray(st, stmt)
                      [] stmt.node = "Do" -> executeDo(st, stmt)
                      [] OTHER -> Throw(st)
         IN  doStatementsFrom(st1, stmts, i + 1)

\* env.currentRow.columns[name] inserts the default column when it is absent
Touch(st, name) == [st EXCEPT !.currentRow = Put(@, name, Column(@, name))]

\* the while loop of executeDo, for increment > 0 and for increment < 0
doLoop(st, node, end, increment) ==
    LET stc == Touch(st, node.loopVar)
        cur == stc.currentRow[node.loopVar]
        inRange == /\ cur.k = "num"
                   /\ end.k = "num"
                   /\ IF increment.n > 0 THEN cur.n <= end.n ELSE cur.n >= end.n
    IN  IF st.error THEN st
        ELSE IF ~inRange THEN stc
        ELSE LET st1 == doStatementsFrom(stc, node.statements, 1)
                 currentVal == BinaryOp("+", toNumber(Column(st1.currentRow, node.loopVar)), increment)
             IN  IF st1.error THEN st1
                 ELSE doLoop([st1 EXCEPT !.currentRow = Put(@, node.loopVar, currentVal)],
                             node, end, increment)

\* the exception of the start, end and increment expressions of executeDo,
\* which are evaluated before the loop variable is set
doThrown(node, st) ==
    IF thrown(node.startExpr, st) # "none" THEN thrown(node.startExpr, st)
    ELSE IF thrown(node.endExpr, st) # "none" THEN thrown(node.endExpr, st)
    ELSE IF node.incrementExpr = NoExpr THEN "none"
    ELSE thrown(node.incrementExpr, st)

\* executeDo as it would be if a zero step skipped the loop without an error
executeDoZeroStepSkips(st, node) ==
    LET start == toNumber(evaluate(node.startExpr, st))
        end == toNumber(evaluate(node.endExpr, st))
        increment == IF node.incrementExpr = NoExpr THEN Num(1)
                     ELSE toNumber(evaluate(node.incrementExpr, st))
        st0 == [st EXCEPT !.currentRow = Put(@, node.loopVar, start)]
    IN  IF doThrown(node, st) # "none" THEN Raise(st, doThrown(node, st))
        ELSE IF increment.k = "num" /\ increment.n # 0
        THEN doLoop(st0, node, end, increment)
        ELSE st0

executeDo(st, node) ==
    LET start == toNumber(evaluate(node.startExpr, st))
        end == toNumber(evaluate(node.endExpr, st))
        increment == IF node.incrementExpr = NoExpr THEN Num(1)
                     ELSE toNumber(evaluate(node.incrementExpr, st))
        st0 == [st EXCEPT !.currentRow = Put(@, node.loopVar, start)]
    IN  IF doThrown(node, st) # "none" THEN Raise(st, doThrown(node, st))
        ELSE IF increment.k = "num" /\ increment.n # 0
        THEN doLoop(st0, node, end, increment)
        ELSE Throw(st0)

(***************************************************************************)
(* The state of the interpreter.                                           *)
(***************************************************************************)
VARIABLES
    program,        \* ProgramNode::statements, the top-level statements
    pi,             \* executeProgram: index of the statement to execute next
    pc,             \* where the interpreter stands: "program", "row", "stmt", "finished"
    dataSets,       \* env.dataSets: dataset name -> [name, rows]
    currentRow,     \* env.currentRow.columns
    variables,      \* env.variables
    retainVars,     \* the member Interpreter::retainVars
    ri,             \* executeDataStep: index of the input row of this iteration
    si,             \* executeDataStep: index of the body statement to execute next
    shouldOutput,   \* locals of executeDataStep
    hasDrop,
    hasKeep,
    hasRetain,
    dropVars,
    keepVars,
    stepRetainVars, \* the local retainVars of executeDataStep
    byVariables,    \* the member Interpreter::byVariables
    loopStack,      \* the member Interpreter::loopStack: (node, iterationCount) pairs
    arrays,         \* the member Interpreter::arrays: array name -> variable names
    iterators,      \* executeMerge: the position in each MERGE input
    rowRange,       \* executeDataStep: the iterators of the loop over input->rows
    errors,         \* runtime errors caught and logged by executeProgram
    lexer,          \* the Lexer: input, pos and the tokens returned so far
    pdv,            \* the PDV: pdvVars and pdvValues
    obs             \* observers: what the step in progress has done so far

vars == <<lexer, pdv, rowRange, loopStack, arrays, program, pi, pc, dataSets, currentRow, variables, retainVars, ri, si,
          shouldOutput, hasDrop, hasKeep, hasRetain, dropVars, keepVars,
          stepRetainVars, byVariables, iterators, errors, obs>>

(***************************************************************************)
(* DataEnvironment::getOrCreateDataset and resolveLibref: a name without   *)
(* libref lives in WORK; a dataset that does not exist is created empty.   *)
(***************************************************************************)
resolveLibref(libref, datasetName) ==
    <<IF libref = "" THEN "WORK" ELSE libref, datasetName>>

getOrCreateDataset(ds, libref, datasetName) ==
    LET fullName == resolveLibref(libref, datasetName)
    IN  IF fullName \in DOMAIN ds THEN ds
        ELSE [n \in (DOMAIN ds) \cup {fullName} |->
                IF n = fullName THEN [name |-> fullName, rows |-> <<>>] ELSE ds[n]]

\* Dataset::addRow is not among the sources; modelled from the
\* specification: the row is appended after the rows the dataset holds.
addRow(dataset, row) == [dataset EXCEPT !.rows = Append(@, row)]

\* node->outputDataSet and node->inputDataSet, split at the '.'
DsName(libref, name) == [libref |-> libref, name |-> name]
inputKey(node) == resolveLibref(node.inputDataSet.libref, node.inputDataSet.name)
outputKey(node) == resolveLibref(node.outputDataSet.libref, node.outputDataSet.name)

NoObs == [outputExecs |-> 0, snaps |-> <<>>, emitted |-> <<>>, iters |-> 0,
          assigned |-> EmptyMap, prevAssigned |-> EmptyMap, prevEnd |-> EmptyMap,
          rowsAtEntry |-> 0, merge |-> "none", mergeInputs |-> <<>>,
          entered |-> <<>>, evaluated |-> 0, read |-> <<>>, depth |-> 0]

\* the range-based for of executeDataStep: end is the position of the end
\* iterator taken when the loop begins; dangling says that input->rows has
\* reallocated its storage since, so that both iterators point into freed
\* memory
NoRange == [end |-> 0, dangling |-> FALSE]
\* what the read of a row through a dangling iterator can give: the row
\* that stood there, or the empty row that its move has left behind
IndeterminateRows(stale) == {stale, EmptyMap}

\* the record a statement handler works on, and back
StmtState == [currentRow |-> currentRow, variables |-> variables,
              retainVars |-> retainVars, arrays |-> arrays,
              outputExecs |-> obs.outputExecs, snaps |-> <<>>,
              assigned |-> obs.assigned, error |-> FALSE, fatal |-> FALSE]

(***************************************************************************)
(* executeMerge.                                                           *)
(***************************************************************************)
\* executeMerge looks its datasets up with getOrCreateDataset(dsName, dsName)
mergeKey(dsName) == resolveLibref(dsName, dsName)

\* operator< and operator== on doubles
DLess(a, b) == BothNum(a, b) /\ a.n < b.n
DEqual(a, b) == BothNum(a, b) /\ a.n = b.n

\* the BY values of a row: 0.0 for a variable that is absent or not a double
byVals(row, by) ==
    [j \in 1..Len(by) |->
        IF by[j] \in DOMAIN row /\ holdsDouble(row[by[j]]) THEN row[by[j]] ELSE Num(0)]

\* Sorter::sortDataset is not among the sources; modelled from the
\* specification: a stable sort, ascending in the BY variables.
RECURSIVE KeyLess(_, _, _)
KeyLess(a, b, j) ==
    IF j > Len(a) THEN FALSE
    ELSE IF DLess(a[j], b[j]) THEN TRUE
    ELSE IF DLess(b[j], a[j]) THEN FALSE
    ELSE KeyLess(a, b, j + 1)

insertSorted(sorted, row, by) ==
    LET p == Cardinality({q \in DOMAIN sorted :
                            ~KeyLess(byVals(row, by), byVals(sorted[q], by), 1)})
    IN  SubSeq(sorted, 1, p) \o <<row>> \o SubSeq(sorted, p + 1, Len(sorted))

RECURSIVE sortFirst(_, _, _)
sortFirst(rows, by, n) ==
    IF n = 0 THEN <<>> ELSE insertSorted(sortFirst(rows, by, n - 1), rows[n], by)

sortDataset(dataset, by) == [dataset EXCEPT !.rows = sortFirst(@, by, Len(@))]

\* the MERGE statement of a DATA step body, found by the scan of executeDataStep
hasMerge(node) == \E j \in DOMAIN node.statements : node.statements[j].node = "Merge"
mergeNode(node) ==
    node.statements[CHOOSE j \in DOMAIN node.statements :
                       /\ node.statements[j].node = "Merge"
                       /\ \A m \in 1..(j - 1) : node.statements[m].node # "Merge"]

\* row.columns.begin()->first: the least column name of a row
NameOrder == <<"a", "b", "i", "id", "v", "x">>
FirstColumn(row) ==
    NameOrder[CHOOSE j \in DOMAIN NameOrder :
                 /\ NameOrder[j] \in DOMAIN row
                 /\ \A m \in 1..(j - 1) : NameOrder[m] \notin DOMAIN row]

\* one matched row merged into mergedRow: a BY variable or a new name is
\* stored, a name already present is stored under a prefixed name
mergeRowInto(mergedRow, row, by) ==
    LET target(c) == IF c \in Range(by) \/ c \notin DOMAIN mergedRow
                     THEN c
                     ELSE FirstColumn(row) \o "_" \o c
        targets == {target(c) : c \in DOMAIN row}
    IN  [t \in (DOMAIN mergedRow) \cup targets |->
            IF t \in targets
            THEN row[CHOOSE c \in DOMAIN row : target(c) = t]
            ELSE mergedRow[t]]

RECURSIVE mergeRowsFrom(_, _, _, _)
mergeRowsFrom(mergedRow, matchedRows, by, i) ==
    IF i > Len(matchedRows) THEN mergedRow
    ELSE mergeRowsFrom(mergeRowInto(mergedRow, matchedRows[i], by), matchedRows, by, i + 1)

\* the minimum of the current BY values, variable by variable
RECURSIVE minFrom(_, _, _, _)
minFrom(m, cur, j, i) ==
    IF i > Len(cur) THEN m
    ELSE minFrom(IF DLess(cur[i][j], m) THEN cur[i][j] ELSE m, cur, j, i + 1)

RECURSIVE concatFrom(_, _)
concatFrom(seqs, i) == IF i > Len(seqs) THEN <<>> ELSE seqs[i] \o concatFrom(seqs, i + 1)

\* a read past the end of currentBYValues[i] yields any double
GarbageVals == 0..MaxKey

(***************************************************************************)
(* execute for the nodes whose handlers return at once, on the members a   *)
(* top-level statement works on: byVariables, loopStack and error (a       *)
(* runtime_error is propagating).                                          *)
(***************************************************************************)
TopState == [byVariables |-> byVariables, loopStack |-> loopStack, error |-> FALSE,
             entered |-> <<>>, evaluated |-> 0]

executeBy(ts, node) == [ts EXCEPT !.byVariables = node.variables]

executeEnd(ts, node) ==
    IF ts.loopStack = <<>> THEN Throw(ts)
    ELSE [ts EXCEPT !.loopStack = SubSeq(@, 1, Len(@) - 1)]

\* the branch of an IF/THEN/ELSE that executeIfElse enters, for the observers
Branch(kind, k) == [branch |-> kind, k |-> k]

RECURSIVE execute(_, _)
RECURSIVE blockFrom(_, _, _)
RECURSIVE branchStatementsFrom(_, _, _)
RECURSIVE elseIfFrom(_, _, _)

\* executeBlock: every statement of the block goes through execute
blockFrom(ts, stmts, i) ==
    IF i > Len(stmts) \/ ts.error THEN ts
    ELSE blockFrom(execute(ts, stmts[i]), stmts, i + 1)

executeBlock(ts, node) == blockFrom(ts, node.statements, 1)

\* the statements of a branch: a BlockNode through executeBlock, anything
\* else through execute
branchStatementsFrom(ts, stmts, i) ==
    IF i > Len(stmts) \/ ts.error THEN ts
    ELSE branchStatementsFrom(IF stmts[i].node = "Block"
                              THEN executeBlock(ts, stmts[i])
                              ELSE execute(ts, stmts[i]),
                              stmts, i + 1)

\* the ELSE IF branches from the k-th on, then the ELSE statements; the
\* observers count the conditions evaluated and note the branch entered
elseIfFrom(ts, node, k) ==
    IF k > Len(node.elseIfBranches)
    THEN IF node.elseStatements # <<>>
         THEN branchStatementsFrom([ts EXCEPT !.entered = Append(@, Branch("else", 0))],
                                   node.elseStatements, 1)
         ELSE ts
    ELSE LET branch == node.elseIfBranches[k]
             elseIfD == toNumber(evaluate(branch.condition, StmtState))
             ts1 == [ts EXCEPT !.evaluated = @ + 1]
         IN  IF NonZero(elseIfD)
             THEN branchStatementsFrom([ts1 EXCEPT !.entered = Append(@, Branch("elseif", k))],
                                       branch.statements, 1)
             ELSE elseIfFrom(ts1, node, k + 1)

executeIfElse(ts, node) ==
    LET d == toNumber(evaluate(node.condition, StmtState))
    IN  IF NonZero(d)
        THEN branchStatementsFrom([ts EXCEPT !.entered = Append(@, Branch("then", 0))],
                                  node.thenStatements, 1)
        ELSE elseIfFrom(ts, node, 1)

execute(ts, node) ==
    CASE node.node = "IfElseIf" -> executeIfElse(ts, node)
      [] node.node = "By" -> executeBy(ts, node)
      [] node.node = "End" -> executeEnd(ts, node)
      [] OTHER -> Throw(ts)

MAX_ITERATIONS == 1000

\* conditionMet of executeDoLoop
conditionMet(node) ==
    IF node.condition = NoExpr THEN TRUE
    ELSE LET condValue == evaluate(node.condition, StmtState)
             nonZero == IF holdsDouble(condValue) THEN NonZero(condValue) ELSE FALSE
         IN  IF node.isWhile THEN nonZero ELSE ~nonZero

(***************************************************************************)
(* executeProgram / execute / executeDoLoop: a top-level DO WHILE or DO    *)
(* UNTIL.  The loop context is pushed; each turn of the while loop is the  *)
(* head (DoLoopHead) followed by the body (DoLoopBody).                    *)
(***************************************************************************)
ExecuteDoLoop ==
    /\ pc = "program"
    /\ pi <= Len(program)
    /\ program[pi].node = "DoLoop"
    /\ loopStack' = Append(loopStack, [node |-> program[pi], iterationCount |-> 0])
    /\ pc' = "doloop"
    /\ obs' = [obs EXCEPT !.depth = Len(loopStack)]
    /\ UNCHANGED <<arrays, program, pi, dataSets, currentRow, variables, retainVars, ri, si,
                   shouldOutput, hasDrop, hasKeep, hasRetain, dropVars, keepVars,
                   stepRetainVars, byVariables, iterators, errors>>
    /\ UNCHANGED <<lexer, pdv, rowRange>>

\* the head of a turn: the stack is empty, the cap is reached, or the
\* condition decides
DoLoopHead ==
    /\ pc = "doloop"
    /\ IF loopStack = <<>>
       THEN /\ pc' = "program"
            /\ pi' = pi + 1
            /\ UNCHANGED loopStack
       ELSE LET top == loopStack[Len(loopStack)]
                pop == SubSeq(loopStack, 1, Len(loopStack) - 1)
            IN  IF top.iterationCount >= MAX_ITERATIONS \/ ~conditionMet(top.node)
                THEN /\ loopStack' = pop
                     /\ pc' = "program"
                     /\ pi' = pi + 1
                ELSE /\ pc' = "dobody"
                     /\ UNCHANGED <<loopStack, pi>>
    /\ UNCHANGED <<arrays, program, dataSets, currentRow, variables, retainVars, ri, si,
                   shouldOutput, hasDrop, hasKeep, hasRetain, dropVars, keepVars,
                   stepRetainVars, byVariables, iterators, errors, obs>>
    /\ UNCHANGED <<lexer, pdv, rowRange>>

\* execute(currentLoop->body.get()); iterationCount is not touched
DoLoopBody ==
    /\ pc = "dobody"
    /\ LET ts == execute(TopState, loopStack[Len(loopStack)].node.body)
       IN  /\ byVariables' = ts.byVariables
           /\ loopStack' = ts.loopStack
           /\ IF ts.error
              THEN /\ errors' = errors + 1
                   /\ pi' = pi + 1
                   /\ pc' = "program"
              ELSE /\ pc' = "doloop"
                   /\ UNCHANGED <<errors, pi>>
    /\ UNCHANGED <<arrays, program, dataSets, currentRow, variables, retainVars, ri, si,
                   shouldOutput, hasDrop, hasKeep, hasRetain, dropVars, keepVars,
                   stepRetainVars, iterators, obs>>
    /\ UNCHANGED <<lexer, pdv, rowRange>>

(***************************************************************************)
(* executeProgram / execute / executeIfElse: a top-level IF/THEN/ELSE.     *)
(***************************************************************************)
ExecuteIfElse ==
    /\ pc = "program"
    /\ pi <= Len(program)
    /\ program[pi].node = "IfElseIf"
    /\ LET ts == executeIfElse(TopState, program[pi])
       IN  /\ byVariables' = ts.byVariables
           /\ loopStack' = ts.loopStack
           /\ errors' = IF ts.error THEN errors + 1 ELSE errors
           /\ obs' = [NoObs EXCEPT !.entered = ts.entered, !.evaluated = ts.evaluated]
    /\ pi' = pi + 1
    /\ UNCHANGED <<arrays, program, pc, dataSets, currentRow, variables, retainVars, ri, si,
                   shouldOutput, hasDrop, hasKeep, hasRetain, dropVars, keepVars,
                   stepRetainVars, iterators>>
    /\ UNCHANGED <<lexer, pdv, rowRange>>

(***************************************************************************)
(* executeProcSort.  It names its datasets with the dataset name as the    *)
(* libref too, as executeMerge does; DataSet::name is the full name the    *)
(* dataset was created with (the programs of the model run no DATA step    *)
(* that renames a dataset of a PROC SORT).                                 *)
(***************************************************************************)
fullNameText(fullName) == fullName[1] \o "." \o fullName[2]

\* std::to_string of a double that holds a small natural number
RECURSIVE naturalText(_)
naturalText(n) ==
    LET digits == <<"0", "1", "2", "3", "4", "5", "6", "7", "8", "9">>
    IN  IF n < 10 THEN digits[n + 1] ELSE naturalText(n \div 10) \o digits[(n % 10) + 1]
to_string(d) == IF d.k = "nan" THEN "nan" ELSE naturalText(d.n) \o ".000000"

\* the key of a row in the NODUPKEY pass
RECURSIVE sortKeyFrom(_, _, _)
sortKeyFrom(row, by, j) ==
    IF j > Len(by) THEN ""
    ELSE (IF by[j] \in DOMAIN row
          THEN (IF holdsDouble(row[by[j]]) THEN to_string(row[by[j]]) ELSE row[by[j]].s) \o "_"
          ELSE "NA_")
         \o sortKeyFrom(row, by, j + 1)

\* the rows the WHERE loop keeps, from the i-th on
RECURSIVE whereFrom(_, _, _, _)
whereFrom(this, rows, cond, i) ==
    IF i > Len(rows) THEN <<>>
    ELSE LET condValue == evaluate(cond, [this EXCEPT !.currentRow = rows[i]])
             conditionTrue == IF holdsDouble(condValue) THEN NonZero(condValue)
                              ELSE condValue.s # ""
         IN  (IF conditionTrue THEN <<rows[i]>> ELSE <<>>) \o whereFrom(this, rows, cond, i + 1)

\* the rows the NODUPKEY loop keeps among the first n
RECURSIVE nodupkeyFirst(_, _, _)
nodupkeyFirst(rows, by, n) ==
    IF n = 0 THEN <<>>
    ELSE IF \E m \in 1..(n - 1) : sortKeyFrom(rows[m], by, 1) = sortKeyFrom(rows[n], by, 1)
    THEN nodupkeyFirst(rows, by, n - 1)
    ELSE Append(nodupkeyFirst(rows, by, n - 1), rows[n])

\* the datasets of the catalog after executeProcSort
executeProcSort(ds, this, node) ==
    LET inputName == mergeKey(node.inputDataSet)
        filteredName == mergeKey("TEMP_SORT_FILTERED")
        nodupName == mergeKey("TEMP_SORT_NODUPKEY")
        hasWhere == node.whereCondition # NoExpr
        ds1 == getOrCreateDataset(ds, node.inputDataSet, node.inputDataSet)
        ds2 == IF hasWhere
               THEN [getOrCreateDataset(ds1, "TEMP_SORT_FILTERED", "TEMP_SORT_FILTERED")
                        EXCEPT ![filteredName].rows =
                                   whereFrom(this, ds1[inputName].rows, node.whereCondition, 1)]
               ELSE ds1
        filteredDS == IF hasWhere THEN filteredName ELSE inputName
        ds3 == [ds2 EXCEPT ![filteredDS] = sortDataset(@, node.byVariables)]
        ds4 == IF node.nodupkey
               THEN [getOrCreateDataset(ds3, "TEMP_SORT_NODUPKEY", "TEMP_SORT_NODUPKEY")
                        EXCEPT ![nodupName].rows =
                                   nodupkeyFirst(ds3[filteredDS].rows, node.byVariables,
                                                 Len(ds3[filteredDS].rows))]
               ELSE ds3
        sortedDS == IF node.nodupkey THEN nodupName ELSE filteredDS
        outputDSName == IF node.outputDataSet = "" THEN node.inputDataSet
                        ELSE node.outputDataSet
        ds5 == getOrCreateDataset(ds4, outputDSName, outputDSName)
    IN  IF outputDSName # fullNameText(ds5[sortedDS].name)
        THEN [ds5 EXCEPT ![mergeKey(outputDSName)].rows = ds5[sortedDS].rows]
        ELSE [ds5 EXCEPT ![inputName].rows = ds5[sortedDS].rows]

\* executeProgram / execute / executeProc: a PROC SORT step.  The WHERE
\* loop leaves the last input row in env.currentRow.
ExecuteProcSort ==
    /\ pc = "program"
    /\ pi <= Len(program)
    /\ program[pi].node = "ProcSort"
    /\ LET node == program[pi]
           rows == getOrCreateDataset(dataSets, node.inputDataSet,
                                      node.inputDataSet)[mergeKey(node.inputDataSet)].rows
       IN  /\ dataSets' = executeProcSort(dataSets, StmtState, node)
           /\ currentRow' = IF node.whereCondition # NoExpr /\ rows # <<>>
                            THEN rows[Len(rows)] ELSE currentRow
    /\ pi' = pi + 1
    /\ UNCHANGED <<loopStack, arrays, program, pc, variables, retainVars, ri, si,
                   shouldOutput, hasDrop, hasKeep, hasRetain, dropVars, keepVars,
                   stepRetainVars, byVariables, iterators, errors, obs>>
    /\ UNCHANGED <<lexer, pdv, rowRange>>

(***************************************************************************)
(* executeProgram / execute / executeEnd: a top-level END statement.       *)
(***************************************************************************)
ExecuteEnd ==
    /\ pc = "program"
    /\ pi <= Len(program)
    /\ program[pi].node = "End"
    /\ LET ts == executeEnd(TopState, program[pi])
       IN  /\ loopStack' = ts.loopStack
           /\ errors' = IF ts.error THEN errors + 1 ELSE errors
    /\ pi' = pi + 1
    /\ UNCHANGED <<arrays, program, pc, dataSets, currentRow, variables, retainVars, ri, si,
                   shouldOutput, hasDrop, hasKeep, hasRetain, dropVars, keepVars,
                   stepRetainVars, byVariables, iterators, obs>>
    /\ UNCHANGED <<lexer, pdv, rowRange>>

(***************************************************************************)
(* executeProgram / execute: a top-level BY statement.                     *)
(***************************************************************************)
ExecuteBy ==
    /\ pc = "program"
    /\ pi <= Len(program)
    /\ program[pi].node = "By"
    /\ byVariables' = program[pi].variables
    /\ pi' = pi + 1
    /\ UNCHANGED <<loopStack, arrays, program, pc, dataSets, currentRow, variables, retainVars, ri, si,
                   shouldOutput, hasDrop, hasKeep, hasRetain, dropVars, keepVars,
                   stepRetainVars, iterators, errors, obs>>
    /\ UNCHANGED <<lexer, pdv, rowRange>>

(***************************************************************************)
(* executeProgram / execute / executeDataStep up to the row loop, with the *)
(* part of executeMerge before its loop when the body has a MERGE.         *)
(***************************************************************************)
ExecuteDataStep ==
    /\ pc = "program"
    /\ pi <= Len(program)
    /\ program[pi].node = "DataStep"
    /\ LET node == program[pi]
           ds1 == getOrCreateDataset(dataSets, node.inputDataSet.libref, node.inputDataSet.name)
           ds2 == getOrCreateDataset(ds1, node.outputDataSet.libref, node.outputDataSet.name)
           obs0 == [NoObs EXCEPT !.rowsAtEntry = Len(ds2[outputKey(node)].rows)]
       IN  IF ~hasMerge(node)
           THEN /\ dataSets' = ds2
                /\ obs' = obs0
                /\ pc' = "row"
                /\ UNCHANGED <<pi, iterators, errors>>
           ELSE LET names == mergeNode(node).datasets
                    keys == {mergeKey(names[i]) : i \in DOMAIN names}
                    ds3 == [n \in (DOMAIN ds2) \cup keys |->
                              IF n \in DOMAIN ds2 THEN ds2[n] ELSE [name |-> n, rows |-> <<>>]]
                    ds4 == [n \in DOMAIN ds3 |->
                              IF n \in keys THEN sortDataset(ds3[n], byVariables) ELSE ds3[n]]
                    \* env.getCurrentDataSet() is not among the sources; modelled
                    \* from the specification as the output dataset of the step
                    ds5 == [ds4 EXCEPT ![outputKey(node)].rows = <<>>]
                IN  IF byVariables = <<>>
                    THEN /\ dataSets' = ds3
                         /\ obs' = [obs0 EXCEPT !.merge = "threw"]
                         /\ errors' = errors + 1
                         /\ pi' = pi + 1
                         /\ pc' = "program"
                         /\ UNCHANGED iterators
                    ELSE /\ dataSets' = ds5
                         /\ obs' = [obs0 EXCEPT !.merge = "running",
                                                !.mergeInputs = [i \in DOMAIN names |->
                                                                   ds4[mergeKey(names[i])].rows]]
                         /\ iterators' = [i \in DOMAIN names |-> 0]
                         /\ pc' = "merge"
                         /\ UNCHANGED <<pi, errors>>
    /\ dropVars' = <<>>
    /\ keepVars' = <<>>
    /\ stepRetainVars' = <<>>
    /\ hasDrop' = FALSE
    /\ hasKeep' = FALSE
    /\ hasRetain' = FALSE
    /\ ri' = 1
    /\ rowRange' = [end |-> Len(dataSets'[inputKey(program[pi])].rows), dangling |-> FALSE]
    /\ UNCHANGED <<loopStack, arrays, program, currentRow, variables, retainVars, si, shouldOutput, byVariables>>
    /\ UNCHANGED <<lexer, pdv>>

\* one pass of the while loop of executeMerge
MergePass ==
    /\ pc = "merge"
    /\ LET names == mergeNode(program[pi]).datasets
           n == Len(names)
           rowsOf(i) == dataSets[mergeKey(names[i])].rows
           has(i) == iterators[i] < Len(rowsOf(i))
           out == outputKey(program[pi])
       IN  IF \A i \in 1..n : ~has(i)
           THEN \* anyDatasetHasRows is false
                /\ pc' = "row"
                /\ obs' = [obs EXCEPT !.merge = "done"]
                /\ UNCHANGED <<dataSets, iterators, errors, pi>>
           ELSE \/ \* an input without rows: currentBYValues[i][j] is read past
                   \* the end of an empty vector, which may end the process
                   /\ \E i \in 1..n : ~has(i)
                   /\ pc' = "crashed"
                   /\ obs' = [obs EXCEPT !.merge = "crashed"]
                   /\ UNCHANGED <<dataSets, iterators, errors, pi>>
                \/ \E garbage \in [1..n -> GarbageVals] :
                     LET cur == [i \in 1..n |->
                                   IF has(i) THEN byVals(rowsOf(i)[iterators[i] + 1], byVariables)
                                   ELSE [j \in 1..Len(byVariables) |-> Num(garbage[i])]]
                         mismatch == \E j \in 1..Len(byVariables) : \E i \in 2..n :
                                        ~DEqual(cur[i][j], cur[1][j])
                         minBYValues == [j \in 1..Len(byVariables) |-> minFrom(cur[1][j], cur, j, 2)]
                         match(i) == /\ has(i)
                                     /\ \A j \in 1..Len(byVariables) : DEqual(cur[i][j], minBYValues[j])
                         matched == {i \in 1..n : match(i)}
                         its1 == [i \in 1..n |-> IF match(i) THEN iterators[i] + 1 ELSE iterators[i]]
                         matchedRows == concatFrom([i \in 1..n |->
                                           IF match(i) THEN <<rowsOf(i)[iterators[i] + 1]>> ELSE <<>>], 1)
                         allDatasetsHaveRows == \A i \in 1..n : its1[i] < Len(rowsOf(i))
                         rest == concatFrom([i \in 1..n |->
                                    SubSeq(rowsOf(i), its1[i] + 1, Len(rowsOf(i)))], 1)
                         mergedRow == mergeRowsFrom(EmptyMap, matchedRows, byVariables, 1)
                     IN  IF mismatch
                         THEN /\ errors' = errors + 1
                              /\ pi' = pi + 1
                              /\ pc' = "program"
                              /\ obs' = [obs EXCEPT !.merge = "threw"]
                              /\ UNCHANGED <<dataSets, iterators>>
                         ELSE IF ~allDatasetsHaveRows
                         THEN /\ dataSets' = [dataSets EXCEPT ![out].rows = @ \o rest]
                              /\ iterators' = [i \in 1..n |-> Len(rowsOf(i))]
                              /\ pc' = "row"
                              /\ obs' = [obs EXCEPT !.merge = "done"]
                              /\ UNCHANGED <<errors, pi>>
                         ELSE /\ dataSets' = [dataSets EXCEPT ![out].rows = Append(@, mergedRow)]
                              /\ iterators' = its1
                              /\ pc' = "merge"
                              /\ UNCHANGED <<errors, pi, obs>>
    /\ UNCHANGED <<loopStack, arrays, program, currentRow, variables, retainVars, ri, si, shouldOutput, hasDrop,
                   hasKeep, hasRetain, dropVars, keepVars, stepRetainVars, byVariables>>
    /\ UNCHANGED <<lexer, pdv, rowRange>>

\* the head of the row loop: load the row, apply RETAIN, clear the locals
BeginIteration ==
    /\ pc = "row"
    /\ ri <= rowRange.end
    /\ \/ \E row \in (IF rowRange.dangling
                       THEN IndeterminateRows(dataSets[inputKey(program[pi])].rows[ri])
                       ELSE {dataSets[inputKey(program[pi])].rows[ri]}) :
            LET restored == {v \in Range(stepRetainVars) : v \in DOMAIN variables}
            IN  /\ currentRow' = IF hasRetain
                                  THEN [v \in (DOMAIN row) \cup restored |->
                                          IF v \in restored THEN variables[v] ELSE row[v]]
                                  ELSE row
                /\ obs' = [obs EXCEPT !.iters = @ + 1, !.assigned = EmptyMap,
                                      !.prevAssigned = obs.assigned,
                                      !.read = Append(@, row)]
                /\ shouldOutput' = FALSE
                /\ dropVars' = <<>>
                /\ keepVars' = <<>>
                /\ stepRetainVars' = <<>>
                /\ hasDrop' = FALSE
                /\ hasKeep' = FALSE
                /\ hasRetain' = FALSE
                /\ si' = 1
                /\ pc' = "stmt"
       \/ \* the read of a row in freed memory may end the process
          /\ rowRange.dangling
          /\ pc' = "crashed"
          /\ UNCHANGED <<currentRow, obs, shouldOutput, dropVars, keepVars, stepRetainVars,
                         hasDrop, hasKeep, hasRetain, si>>
    /\ UNCHANGED <<loopStack, arrays, program, pi, dataSets, variables, retainVars, ri, byVariables, iterators,
                   errors>>
    /\ UNCHANGED <<lexer, pdv, rowRange>>

\* one statement of the body; a runtime_error leaves executeDataStep and is
\* caught by executeProgram, which goes on with the next top-level statement;
\* any other exception leaves executeProgram too, and its loop with it
ExecuteStatement ==
    /\ pc = "stmt"
    /\ si <= Len(program[pi].statements)
    /\ LET stmt == program[pi].statements[si]
           st == CASE stmt.node = "Assignment" -> executeAssignment(StmtState, stmt)
                   [] stmt.node = "IfThen" -> executeIfThen(StmtState, stmt)
                   [] stmt.node = "Output" -> executeOutput(StmtState, stmt)
                   [] stmt.node = "Drop" -> executeDrop(StmtState, stmt)
                   [] stmt.node = "Keep" -> executeKeep(StmtState, stmt)
                   [] stmt.node = "Retain" -> executeRetain(StmtState, stmt)
                   [] stmt.node = "Array" -> executeArray(StmtState, stmt)
                   [] stmt.node = "Do" -> executeDo(StmtState, stmt)
                   [] OTHER -> Throw(StmtState)
       IN  /\ currentRow' = st.currentRow
           /\ variables' = st.variables
           /\ retainVars' = st.retainVars
           /\ arrays' = st.arrays
           /\ obs' = [obs EXCEPT !.outputExecs = st.outputExecs,
                                 !.snaps = @ \o [j \in 1..Len(st.snaps) |->
                                                  [iter |-> obs.iters, row |-> st.snaps[j]]],
                                 !.assigned = st.assigned]
           /\ shouldOutput' = IF ~st.error /\ stmt.node = "Output" THEN TRUE ELSE shouldOutput
           /\ hasDrop' = IF ~st.error /\ stmt.node = "Drop" THEN TRUE ELSE hasDrop
           /\ hasKeep' = IF ~st.error /\ stmt.node = "Keep" THEN TRUE ELSE hasKeep
           /\ hasRetain' = IF ~st.error /\ stmt.node = "Retain" THEN TRUE ELSE hasRetain
           /\ IF st.fatal
              THEN /\ errors' = errors
                   /\ pi' = pi
                   /\ pc' = "terminated"
                   /\ si' = si
              ELSE IF st.error
              THEN /\ errors' = errors + 1
                   /\ pi' = pi + 1
                   /\ pc' = "program"
                   /\ si' = si
              ELSE /\ errors' = errors
                   /\ pi' = pi
                   /\ pc' = "stmt"
                   /\ si' = si + 1
    /\ UNCHANGED <<loopStack, program, dataSets, ri, dropVars, keepVars, stepRetainVars, byVariables,
                   iterators>>
    /\ UNCHANGED <<lexer, pdv, rowRange>>

\* the tail of the row loop: DROP/KEEP, RETAIN, and the row is added when
\* shouldOutput is set
EndIteration ==
    /\ pc = "stmt"
    /\ si > Len(program[pi].statements)
    /\ LET kept == IF hasKeep
                   THEN Erase(currentRow, (DOMAIN currentRow) \ Range(keepVars))
                   ELSE IF hasDrop THEN Erase(currentRow, Range(dropVars))
                   ELSE currentRow
           stored == {v \in Range(stepRetainVars) : v \in DOMAIN kept}
           restored == {v \in Range(stepRetainVars) : v \notin DOMAIN kept /\ v \in DOMAIN variables}
           vars1 == IF hasRetain
                    THEN [v \in (DOMAIN variables) \cup stored |->
                            IF v \in stored THEN kept[v] ELSE variables[v]]
                    ELSE variables
           row1 == IF hasRetain
                   THEN [v \in (DOMAIN kept) \cup restored |->
                           IF v \in restored THEN variables[v] ELSE kept[v]]
                   ELSE kept
           out == outputKey(program[pi])
       IN  /\ currentRow' = row1
           /\ variables' = vars1
           /\ dataSets' = IF shouldOutput
                          THEN [dataSets EXCEPT ![out] = addRow(@, row1)]
                          ELSE dataSets
           /\ obs' = [obs EXCEPT !.emitted = IF shouldOutput
                                             THEN Append(@, [iter |-> obs.iters, row |-> row1])
                                             ELSE @,
                                 !.prevEnd = currentRow]
    /\ ri' = ri + 1
    /\ pc' = "row"
    \* addRow on the dataset that the loop runs over: whether the vector
    \* reallocates depends on its capacity, which the code does not control
    /\ IF shouldOutput /\ outputKey(program[pi]) = inputKey(program[pi])
       THEN \E reallocated \in BOOLEAN :
               rowRange' = [rowRange EXCEPT !.dangling = @ \/ reallocated]
       ELSE UNCHANGED rowRange
    /\ UNCHANGED <<loopStack, arrays, program, pi, retainVars, si, shouldOutput, hasDrop, hasKeep, hasRetain,
                   dropVars, keepVars, stepRetainVars, byVariables, iterators, errors>>
    /\ UNCHANGED <<lexer, pdv>>

\* the row loop is over: executeDataStep prints the dataset and returns
EndDataStep ==
    /\ pc = "row"
    /\ ri > rowRange.end
    /\ pi' = pi + 1
    /\ pc' = "program"
    /\ UNCHANGED <<loopStack, arrays, program, dataSets, currentRow, variables, retainVars, ri, si, shouldOutput,
                   hasDrop, hasKeep, hasRetain, dropVars, keepVars, stepRetainVars, byVariables,
                   iterators, errors, obs>>
    /\ UNCHANGED <<lexer, pdv, rowRange>>

\* executeProgram has gone through all statements
EndProgram ==
    /\ pc = "program"
    /\ pi > Len(program)
    /\ pc' = "finished"
    /\ UNCHANGED <<loopStack, arrays, program, pi, dataSets, currentRow, variables, retainVars, ri, si,
                   shouldOutput, hasDrop, hasKeep, hasRetain, dropVars, keepVars,
                   stepRetainVars, byVariables, iterators, errors, obs>>
    /\ UNCHANGED <<lexer, pdv, rowRange>>

(***************************************************************************)
(* The Lexer: the comment handling of getNextToken.  The input is a        *)
(* sequence of characters and pos is 1-based; line and col, which only     *)
(* number the tokens, are left out.                                        *)
(***************************************************************************)
Token(type, text) == [type |-> type, text |-> text]

\* skipWhitespace is called by getNextToken and is not listed: it skips
\* spaces, newlines and tabs
RECURSIVE skipWhitespace(_)
skipWhitespace(lx) ==
    IF lx.pos <= Len(lx.input) /\ lx.input[lx.pos] \in {" ", "\n", "\t"}
    THEN skipWhitespace([lx EXCEPT !.pos = @ + 1])
    ELSE lx

\* the while loop of skipBlockComment
RECURSIVE blockCommentFrom(_)
blockCommentFrom(lx) ==
    IF lx.pos > Len(lx.input) THEN lx
    ELSE IF lx.input[lx.pos] = "*" /\ lx.pos + 1 <= Len(lx.input) /\ lx.input[lx.pos + 1] = "/"
    THEN [lx EXCEPT !.pos = @ + 2]
    ELSE blockCommentFrom([lx EXCEPT !.pos = @ + 1])

skipBlockComment(lx) == blockCommentFrom([lx EXCEPT !.pos = @ + 2])

\* the while loop of skipLineComment: the semicolon belongs to the comment
RECURSIVE lineCommentFrom(_)
lineCommentFrom(lx) ==
    IF lx.pos > Len(lx.input) THEN lx
    ELSE IF lx.input[lx.pos] = ";" THEN [lx EXCEPT !.pos = @ + 1]
    ELSE lineCommentFrom([lx EXCEPT !.pos = @ + 1])

skipLineComment(lx, macro) ==
    lineCommentFrom([lx EXCEPT !.pos = IF macro THEN @ + 2 ELSE @ + 1])

\* getNextToken: the token returned is appended to lx.tokens.  The parsing
\* of identifiers, numbers and strings is not listed; every character that
\* starts no comment is consumed as a token of its own, as the fallback does
RECURSIVE getNextToken(_)
getNextToken(lx) ==
    LET l1 == skipWhitespace(lx)
        c == l1.input[l1.pos]
        more == l1.pos + 1 <= Len(l1.input)
    IN  IF l1.pos > Len(l1.input)
        THEN [l1 EXCEPT !.tokens = Append(@, Token("EOF_TOKEN", ""))]
        ELSE IF c = "/" /\ more /\ l1.input[l1.pos + 1] = "*"
        THEN getNextToken(skipBlockComment(l1))
        ELSE IF c = "*" /\ more /\ l1.input[l1.pos + 1] # "/"
        THEN getNextToken(skipLineComment(l1, FALSE))
        ELSE IF c = "%" /\ more /\ l1.input[l1.pos + 1] = "*"
        THEN getNextToken(skipLineComment(l1, TRUE))
        ELSE [l1 EXCEPT !.tokens = Append(@, Token("UNKNOWN", c)), !.pos = @ + 1]

\* the lexer before its first call, on the given input
LexerOn(input) == [input |-> input, pos |-> 1, tokens |-> <<>>]

\* the caller asks for tokens until it gets EOF_TOKEN
AtEof == lexer.tokens # <<>> /\ lexer.tokens[Len(lexer.tokens)].type = "EOF_TOKEN"

(***************************************************************************)
(* The PDV: pdvVars holds the metadata of the variables (name, isNumeric,  *)
(* retained; the display attributes are left out) and pdvValues the        *)
(* current values.  Indexes are 0-based as in the code.                    *)
(***************************************************************************)
PdvVar(name, isNumeric) == [name |-> name, isNumeric |-> isNumeric, retained |-> FALSE]

\* double(-INFINITY), the missing value of a numeric cell
NegInf == [k |-> "ninf", n |-> 0, s |-> ""]
MissingCell(isNumeric) == IF isNumeric THEN NegInf ELSE Str("")

\* boost::iequals on the names of the model
toLower(name) == CASE name = "A" -> "a"
                   [] name = "B" -> "b"
                   [] name = "OUT" -> "out"
                   [] OTHER -> name
iequals(a, b) == toLower(a) = toLower(b)

RECURSIVE findVarIndexFrom(_, _, _)
findVarIndexFrom(p, name, i) ==
    IF i >= Len(p.pdvVars) THEN -1
    ELSE IF iequals(p.pdvVars[i + 1].name, name) THEN i
    ELSE findVarIndexFrom(p, name, i + 1)

\* findVarIndex as it would be if it compared the names exactly
findVarIndexExact(p, name) ==
    IF \E i \in DOMAIN p.pdvVars : p.pdvVars[i].name = name
    THEN (CHOOSE i \in DOMAIN p.pdvVars :
            /\ p.pdvVars[i].name = name
            /\ \A j \in 1..(i - 1) : p.pdvVars[j].name # name) - 1
    ELSE -1

findVarIndex(p, name) == findVarIndexFrom(p, name, 0)

addVariable(p, varDef) ==
    IF findVarIndex(p, varDef.name) >= 0 THEN p
    ELSE [pdvVars |-> Append(p.pdvVars, varDef),
          pdvValues |-> Append(p.pdvValues, MissingCell(varDef.isNumeric))]

setValue(p, varIndex, val) ==
    IF varIndex < 0 \/ varIndex >= Len(p.pdvValues) THEN p
    ELSE [p EXCEPT !.pdvValues[varIndex + 1] = val]

getValue(p, varIndex) ==
    IF varIndex < 0 \/ varIndex >= Len(p.pdvValues) THEN NegInf
    ELSE p.pdvValues[varIndex + 1]

resetNonRetained(p) ==
    [p EXCEPT !.pdvValues =
        [i \in DOMAIN p.pdvValues |->
            IF i \in DOMAIN p.pdvVars /\ ~p.pdvVars[i].retained
            THEN MissingCell(p.pdvVars[i].isNumeric)
            ELSE p.pdvValues[i]]]

setRetainFlag(p, varName, retainedFlag) ==
    LET idx == findVarIndex(p, varName)
    IN  IF idx >= 0 THEN [p EXCEPT !.pdvVars[idx + 1].retained = retainedFlag] ELSE p

\* doc is the list of (var_names[i], numeric type) of a SasDoc
RECURSIVE addAllFrom(_, _, _)
addAllFrom(p, doc, i) ==
    IF i > Len(doc) THEN p
    ELSE addAllFrom(addVariable(p, PdvVar(doc[i].name, doc[i].isNumeric)), doc, i + 1)

initFromSasDoc(p, doc) == addAllFrom([pdvVars |-> <<>>, pdvValues |-> <<>>], doc, 1)

EmptyPdv == [pdvVars |-> <<>>, pdvValues |-> <<>>]

(***************************************************************************)
(* The programs the model runs: a DATA step over WORK.in (or with no SET)  *)
(* with a body of at most MaxBody statements, optionally followed by a     *)
(* second DATA step.                                                       *)
(***************************************************************************)
SeqsUpTo(S, n) == UNION {[1..m -> S] : m \in 0..n}

AllNames == {"x", "a", "b", "i"}

StatementPool ==
    { AssignmentNode("a", NumberNode(10)),
      AssignmentNode("b", BinaryOpNode("+", VariableNode("x"), NumberNode(1))),
      AssignmentNode("b", StringNode("s")),
      OutputNode,
      IfThenNode(BinaryOpNode(">", VariableNode("a"), NumberNode(3)), <<OutputNode>>),
      RetainNode(<<"a", "i">>),
      DoNode("i", NumberNode(1), NumberNode(2), NoExpr, <<OutputNode>>),
      DoNode("i", NumberNode(1), NumberNode(2), NumberNode(0), <<OutputNode>>),
      IfElseIfNode(NumberNode(1), <<AssignmentNode("a", NumberNode(10))>>, <<>>,
                   <<AssignmentNode("b", StringNode("s"))>>),
      DropNode(<<"x">>),
      KeepNode(<<"a">>),
      ByStatementNode(<<"x">>) }

InputRowPool == { [x |-> Num(1)], [x |-> Num(5)] }

FirstSteps ==
    { DataStepNode(DsName("", "out"), DsName("", in), body) :
        in \in {"", "in"}, body \in SeqsUpTo(StatementPool, MaxBody) }

SecondSteps ==
    { DataStepNode(DsName("", "out2"), DsName("", "in"),
                   <<AssignmentNode("b", VariableNode("a")), OutputNode>>) }

\* do i = 1 to 2 by (a != 10); output; end; output; a = 10;
\* the step is 1 while a is missing and 0 once a is 10
ZeroStepBody ==
    <<DoNode("i", NumberNode(1), NumberNode(2),
             BinaryOpNode("!=", VariableNode("a"), NumberNode(10)), <<OutputNode>>),
      OutputNode,
      AssignmentNode("a", NumberNode(10))>>

\* m is never assigned and is not in the input: it is missing
\* if m then output;   b = m and 1; output;   b = m or 0; output;
\* and the same with a, which is 10:  a = 10; if a then output;  ...
TruthBodies ==
    UNION { { <<IfThenNode(VariableNode(v), <<OutputNode>>)>>,
              <<AssignmentNode("b", BinaryOpNode("and", VariableNode(v), NumberNode(1))), OutputNode>>,
              <<AssignmentNode("b", BinaryOpNode("or", VariableNode(v), NumberNode(0))), OutputNode>>,
              <<AssignmentNode("a", NumberNode(10)), IfThenNode(VariableNode(v), <<OutputNode>>)>>,
              <<AssignmentNode("a", NumberNode(10)),
                AssignmentNode("b", BinaryOpNode("and", VariableNode(v), NumberNode(1)))>>,
              <<AssignmentNode("a", NumberNode(10)),
                AssignmentNode("b", BinaryOpNode("or", VariableNode(v), NumberNode(0)))>> } :
            v \in {"m", "a"} }

\* b = trim(<e>); output;  with a string, the number 1 and the variable x,
\* and b = trim(); output;
FunctionBodies ==
    { <<AssignmentNode("b", FunctionCallNode("trim", args)), OutputNode>> :
        args \in { <<StringNode("s ")>>, <<NumberNode(1)>>, <<VariableNode("x")>>, <<>> } }

\* a = 10;  and KEEP and DROP statements before and after it, then output;
KeepDropBodies ==
    { <<AssignmentNode("a", NumberNode(10)), KeepNode(<<"a">>), OutputNode>>,
      <<KeepNode(<<"a">>), AssignmentNode("a", NumberNode(10)), OutputNode>>,
      <<AssignmentNode("a", NumberNode(10)), KeepNode(<<"x">>), OutputNode>>,
      <<AssignmentNode("a", NumberNode(10)), DropNode(<<"a">>), OutputNode>>,
      <<DropNode(<<"a">>), AssignmentNode("a", NumberNode(10)), OutputNode>>,
      <<AssignmentNode("a", NumberNode(10)), DropNode(<<"x">>), KeepNode(<<"a", "x">>),
        OutputNode>> }

\* array arr[2] x a;  b = arr[<index>];  output;  with and without a = 10;
\* before the reference, and an ARRAY statement whose size is not the
\* number of its variables
MaxIndex == 3
ArrayBodies ==
    { <<ArrayNode("arr", 2, <<"x", "a">>)>> \o pre \o
      <<AssignmentNode("b", ArrayElementNode(name, NumberNode(index))), OutputNode>> :
        pre \in { <<>>, <<AssignmentNode("a", NumberNode(10))>> },
        name \in {"arr", "other"},
        index \in 0..MaxIndex }
    \cup { <<ArrayNode("arr", 3, <<"x", "a">>), OutputNode>> }

\* a = 10; b = A; output;   and   a = 10; A = 5; output;
CaseBodies ==
    { <<AssignmentNode("a", NumberNode(10)), AssignmentNode("b", VariableNode("A")), OutputNode>>,
      <<AssignmentNode("a", NumberNode(10)), AssignmentNode("A", NumberNode(5)), OutputNode>> }

\* data OUT; set in; output; run;  data out; set in; output; run;
CasePrograms ==
    { <<DataStepNode(DsName("", "OUT"), DsName("", "in"), <<OutputNode>>),
        DataStepNode(DsName("", "out"), DsName("", "in"), <<OutputNode>>)>> }

\* b = "s" + 1; output;   and   b = "7" + 1; output;   and with * and -
ConversionBodies ==
    { <<AssignmentNode("b", BinaryOpNode(op, StringNode(str), NumberNode(1))), OutputNode>> :
        op \in {"+", "-", "*"}, str \in {"s", "7"} }

\* bodies outside the statement pool, each for one situation
ScenarioSteps ==
    { DataStepNode(DsName("", "out"), DsName("", "in"), body) :
        body \in {ZeroStepBody} \cup TruthBodies \cup FunctionBodies
                  \cup KeepDropBodies \cup ArrayBodies \cup CaseBodies
                  \cup ConversionBodies }

FunctionSteps ==
    { DataStepNode(DsName("", "out"), DsName("", "in"), body) : body \in FunctionBodies }

\* data out; set in; output; run;  twice, and with a = 10; before output
RerunSteps ==
    { DataStepNode(DsName("", "out"), DsName("", "in"), body) :
        body \in { <<OutputNode>>, <<AssignmentNode("a", NumberNode(10)), OutputNode>> } }
RerunPrograms == { <<s1, s1>> : s1 \in RerunSteps }

\* data in; set in; output; run;  and with a = 10; before output
SelfPrograms ==
    { <<DataStepNode(DsName("", "in"), DsName("", "in"), body)>> :
        body \in { <<OutputNode>>, <<AssignmentNode("a", NumberNode(10)), OutputNode>> } }

Programs == { <<s1>> : s1 \in FirstSteps \cup ScenarioSteps }
            \cup { <<s1, s2>> : s1 \in FirstSteps \cup FunctionSteps, s2 \in SecondSteps }
            \cup CasePrograms
            \cup RerunPrograms
            \cup SelfPrograms

\* data out; merge ds1 ds2; by id; run;  alone and after a BY statement
MergeStep ==
    DataStepNode(DsName("", "out"), DsName("", ""),
                 <<MergeStatementNode(<<"ds1", "ds2">>), ByStatementNode(<<"id">>)>>)

MergePrograms == { <<MergeStep>>, <<ByStatementNode(<<"id">>), MergeStep>> }

\* by v; data out; merge ds1 ds2; by id; run;  the BY list of an earlier
\* statement differs from the one the step declares
LeftoverByPrograms == { <<ByStatementNode(<<"v">>), MergeStep>> }

\* by id; data out; merge ds1 ds2 ds3; by id; run;
MergeStep3 ==
    DataStepNode(DsName("", "out"), DsName("", ""),
                 <<MergeStatementNode(<<"ds1", "ds2", "ds3">>), ByStatementNode(<<"id">>)>>)

Merge3Programs == { <<ByStatementNode(<<"id">>), MergeStep3>> }

\* do while (c); <one statement> end;  and do until (c); ..., alone and
\* followed by a BY statement
DoLoops ==
    { DoLoopNode(c, w, b) :
        c \in {NumberNode(1), NumberNode(0), VariableNode("a")},
        w \in BOOLEAN,
        b \in {ByStatementNode(<<"id">>), EndNode, AssignmentNode("a", NumberNode(10))} }

\* if c then <th>; else if c1 then by e1; else if c2 then by e2; else by el;
\* with zero to two ELSE IF branches and with or without ELSE, alone and
\* after an assignment of a in a DATA step
IfElseConditions == {NumberNode(1), NumberNode(0), VariableNode("a")}
IfElses ==
    { IfElseIfNode(c, th, elifs, el) :
        c \in IfElseConditions,
        th \in { <<ByStatementNode(<<"t">>)>>,
                  <<BlockNode(<<ByStatementNode(<<"t">>)>>)>>,
                  <<AssignmentNode("a", NumberNode(10))>> },
        elifs \in { <<>> }
                  \cup { <<ElseIfBranch(c1, <<ByStatementNode(<<"e1">>)>>)>> :
                           c1 \in IfElseConditions }
                  \cup { <<ElseIfBranch(c1, <<ByStatementNode(<<"e1">>)>>),
                           ElseIfBranch(c2, <<ByStatementNode(<<"e2">>)>>)>> :
                           c1 \in {NumberNode(1), NumberNode(0)},
                           c2 \in {NumberNode(1), NumberNode(0)} },
        el \in { <<>>, <<ByStatementNode(<<"el">>)>> } }

IfElsePrograms == { <<n>> : n \in IfElses }

DoLoopPrograms == { <<d>> : d \in DoLoops } \cup { <<d, ByStatementNode(<<"x">>)>> : d \in DoLoops }

\* end;  alone, after a DO loop, and after two DO loops
EndPrograms ==
    { <<EndNode>> }
    \cup { <<d, EndNode>> : d \in DoLoops }
    \cup { <<d1, d2, EndNode>> :
             d1 \in { DoLoopNode(NumberNode(1), TRUE, AssignmentNode("a", NumberNode(10))) },
             d2 \in DoLoops }

\* proc sort data=ps [out=sorted] [nodupkey]; by id; [where 1 | where id > 1];
\* and the same by a b;
MaxSortRows == 3
SortConditions ==
    {NoExpr, NumberNode(1), BinaryOpNode(">", VariableNode("id"), NumberNode(1))}
ProcSorts ==
    { ProcSortNode("ps", out, by, where, nodupkey, FALSE) :
        out \in {"", "sorted"}, by \in { <<"id">>, <<"a", "b">> },
        where \in SortConditions, nodupkey \in BOOLEAN }
    \cup { ProcSortNode("ps", "sorted", <<"id">>, NoExpr, TRUE, TRUE) }
ProcSortPrograms == { <<n>> : n \in ProcSorts }

\* the rows of the PROC SORT input: numeric keys id, or character keys a
\* and b; v numbers the rows
SortInputs ==
    { [j \in DOMAIN ids |-> [id |-> Num(ids[j]), v |-> Num(j)]] :
        ids \in SeqsUpTo(1..2, MaxSortRows) }
    \cup { [j \in DOMAIN keys |-> [a |-> Str(keys[j][1]), b |-> Str(keys[j][2]), v |-> Num(j)]] :
             keys \in SeqsUpTo({"x", "x_"} \X {"y", "_y"}, MaxSortRows - 1) }

\* the rows of MERGE input d: distinct BY keys id, in any order
MergeRow(d, key) == [id |-> Num(key), v |-> Num(10 * d + key)]
MergeInputs(d) ==
    { [j \in DOMAIN keys |-> MergeRow(d, keys[j])] :
        keys \in { q \in SeqsUpTo(1..MaxKey, MaxMergeRows) :
                     \A j, m \in DOMAIN q : j # m => q[j] # q[m] } }

Init ==
    /\ \/ /\ program \in Programs
          /\ \E rows \in SeqsUpTo(InputRowPool, MaxRows) :
                dataSets = [n \in {<<"WORK", "in">>} |-> [name |-> n, rows |-> rows]]
       \/ /\ program \in MergePrograms \cup LeftoverByPrograms
          /\ \E rows1 \in MergeInputs(1), rows2 \in MergeInputs(2) :
                dataSets = [n \in {mergeKey("ds1"), mergeKey("ds2")} |->
                              [name |-> n,
                               rows |-> IF n = mergeKey("ds1") THEN rows1 ELSE rows2]]
       \/ /\ program \in DoLoopPrograms \cup IfElsePrograms \cup EndPrograms
          /\ dataSets = [n \in {} |-> [name |-> n, rows |-> <<>>]]
       \/ /\ program \in ProcSortPrograms
          /\ \E rows \in SortInputs :
                dataSets = [n \in {mergeKey("ps")} |-> [name |-> n, rows |-> rows]]
       \/ /\ program \in Merge3Programs
          /\ \E rows1 \in MergeInputs(1), rows2 \in MergeInputs(2), rows3 \in MergeInputs(3) :
                dataSets = [n \in {mergeKey("ds1"), mergeKey("ds2"), mergeKey("ds3")} |->
                              [name |-> n,
                               rows |-> IF n = mergeKey("ds1") THEN rows1
                                        ELSE IF n = mergeKey("ds2") THEN rows2 ELSE rows3]]
    /\ pi = 1
    /\ pc = "program"
    /\ byVariables = <<>>
    /\ loopStack = <<>>
    /\ arrays = EmptyMap
    /\ iterators = <<>>
    /\ currentRow = EmptyMap
    /\ variables = EmptyMap
    /\ retainVars = <<>>
    /\ ri = 1
    /\ rowRange = NoRange
    /\ si = 1
    /\ shouldOutput = FALSE
    /\ hasDrop = FALSE
    /\ hasKeep = FALSE
    /\ hasRetain = FALSE
    /\ dropVars = <<>>
    /\ keepVars = <<>>
    /\ stepRetainVars = <<>>
    /\ errors = 0
    /\ obs = NoObs
    /\ lexer = LexerOn(<<>>)
    /\ pdv = EmptyPdv

Next ==
    \/ ExecuteProcSort
    \/ ExecuteEnd
    \/ ExecuteBy
    \/ ExecuteIfElse
    \/ ExecuteDoLoop
    \/ DoLoopHead
    \/ DoLoopBody
    \/ ExecuteDataStep
    \/ MergePass
    \/ BeginIteration
    \/ ExecuteStatement
    \/ EndIteration
    \/ EndDataStep
    \/ EndProgram

Spec == Init /\ [][Next]_vars

\* the interpreter with no program to run
interpreterVars ==
    <<rowRange, loopStack, arrays, program, pi, pc, dataSets, currentRow, variables, retainVars, ri, si,
      shouldOutput, hasDrop, hasKeep, hasRetain, dropVars, keepVars,
      stepRetainVars, byVariables, iterators, errors, obs>>

NoProgram ==
    /\ program = <<>>
    /\ dataSets = [n \in {} |-> [name |-> n, rows |-> <<>>]]
    /\ pi = 1
    /\ pc = "program"
    /\ byVariables = <<>>
    /\ loopStack = <<>>
    /\ arrays = EmptyMap
    /\ iterators = <<>>
    /\ currentRow = EmptyMap
    /\ variables = EmptyMap
    /\ retainVars = <<>>
    /\ ri = 1
    /\ rowRange = NoRange
    /\ si = 1
    /\ shouldOutput = FALSE
    /\ hasDrop = FALSE
    /\ hasKeep = FALSE
    /\ hasRetain = FALSE
    /\ dropVars = <<>>
    /\ keepVars = <<>>
    /\ stepRetainVars = <<>>
    /\ errors = 0
    /\ obs = NoObs

\* The lexer alone, on every input of at most MaxInput characters: the
\* caller calls getNextToken until it returns EOF_TOKEN.
MaxInput == 4
Characters == {"y", "*", ";", " ", "/", "%"}

GetNextToken ==
    /\ ~AtEof
    /\ lexer' = getNextToken(lexer)
    /\ UNCHANGED <<pdv, interpreterVars>>

LexInit ==
    /\ NoProgram
    /\ pdv = EmptyPdv
    /\ \E input \in SeqsUpTo(Characters, MaxInput) : lexer = LexerOn(input)

LexNext == GetNextToken

LexSpec == LexInit /\ [][LexNext]_vars

\* The PDV alone, under every sequence of its operations.
MaxDocVars == 2
PdvNamePool == {"a", "A", "b"}
CellPool == {NegInf, Num(1), Str(""), Str("s")}

AddVariable ==
    /\ \E name \in PdvNamePool, isNumeric \in BOOLEAN :
          pdv' = addVariable(pdv, PdvVar(name, isNumeric))
    /\ UNCHANGED <<lexer, interpreterVars>>

SetValue ==
    /\ \E varIndex \in -1..Len(pdv.pdvVars), val \in CellPool :
          pdv' = setValue(pdv, varIndex, val)
    /\ UNCHANGED <<lexer, interpreterVars>>

ResetNonRetained ==
    /\ pdv' = resetNonRetained(pdv)
    /\ UNCHANGED <<lexer, interpreterVars>>

SetRetainFlag ==
    /\ \E varName \in PdvNamePool, retainedFlag \in BOOLEAN :
          pdv' = setRetainFlag(pdv, varName, retainedFlag)
    /\ UNCHANGED <<lexer, interpreterVars>>

InitFromSasDoc ==
    /\ \E doc \in SeqsUpTo([name : PdvNamePool, isNumeric : BOOLEAN], MaxDocVars) :
          pdv' = initFromSasDoc(pdv, doc)
    /\ UNCHANGED <<lexer, interpreterVars>>

PdvInit ==
    /\ NoProgram
    /\ lexer = LexerOn(<<>>)
    /\ pdv = EmptyPdv

PdvNext ==
    \/ ResetNonRetained
    \/ AddVariable
    \/ SetValue
    \/ SetRetainFlag
    \/ InitFromSasDoc

PdvSpec == PdvInit /\ [][PdvNext]_vars

\* The programs that hold a DO WHILE / DO UNTIL loop, run to their end.  The
\* interpreter is one thread that runs until executeProgram returns: a step
\* that can be taken is taken.
LoopInit == Init /\ program \in DoLoopPrograms

LoopNext ==
    \/ ExecuteBy
    \/ ExecuteDoLoop
    \/ DoLoopHead
    \/ DoLoopBody
    \/ EndProgram

FairSpec == LoopInit /\ [][LoopNext]_vars /\ WF_vars(LoopNext)

(***************************************************************************)
(* What the claims speak about.                                            *)
(***************************************************************************)
InStep == pc \in {"row", "stmt"}
Body == program[pi].statements
InputRows == dataSets[inputKey(program[pi])].rows
\* the step that has just returned normally
DoneNode == program[pi - 1]
StepDone ==
    /\ pc = "program"
    /\ pi > 1
    /\ DoneNode.node = "DataStep"
    /\ ~hasMerge(DoneNode)
    /\ obs.iters = Len(dataSets[inputKey(DoneNode)].rows)

RECURSIVE HasOutput(_)
HasOutput(stmts) ==
    \E j \in DOMAIN stmts :
        \/ stmts[j].node = "Output"
        \/ stmts[j].node = "IfThen" /\ HasOutput(stmts[j].thenStatements)
        \/ stmts[j].node = "Do" /\ HasOutput(stmts[j].statements)

RetainNames(stmts) ==
    UNION { Range(stmts[j].variables) : j \in {m \in DOMAIN stmts : stmts[m].node = "Retain"} }

TypedMissing(v) == v = NaN \/ v = Str("")
EmittedIn(iter) == { j \in DOMAIN obs.emitted : obs.emitted[j].iter = iter }
SnapsIn(iter) == { j \in DOMAIN obs.snaps : obs.snaps[j].iter = iter }

\* C1: in a DATA step whose body contains OUTPUT statements, the rows
\* appended to the output dataset are as many as the executions of OUTPUT
\* so far, at every iteration boundary.
C1_RowsEqualOutputExecutions ==
    (pc = "row" /\ HasOutput(Body)) => Len(obs.emitted) = obs.outputExecs

\* C2: every emitted row agrees with env.currentRow as it was when an OUTPUT
\* of the same iteration executed: a variable of that snapshot has the
\* snapshot's value, a variable assigned only afterwards is typed missing.
C2_RowIsSnapshotAtOutput ==
    pc = "row" =>
        \A j \in DOMAIN obs.emitted :
            \E m \in SnapsIn(obs.emitted[j].iter) :
                LET row == obs.emitted[j].row
                    snap == obs.snaps[m].row
                IN  \A v \in DOMAIN row :
                        IF v \in DOMAIN snap THEN row[v] = snap[v] ELSE TypedMissing(row[v])

\* C3: without an OUTPUT statement in the body every iteration emits exactly
\* one row; with one, an iteration in which no OUTPUT executed emits none.
C3_ImplicitOutputPolicy ==
    pc = "row" =>
        IF HasOutput(Body)
        THEN \A it \in 1..obs.iters : SnapsIn(it) = {} => EmittedIn(it) = {}
        ELSE \A it \in 1..obs.iters : Cardinality(EmittedIn(it)) = 1

\* C4: a DATA step with no SET runs its body exactly once, and
\* data out; a = 10; output; run; leaves one row with the one variable a.
C4_NoInputRunsOnce ==
    (StepDone /\ DoneNode.inputDataSet.name = "") =>
        /\ obs.iters = 1
        /\ DoneNode.statements = <<AssignmentNode("a", NumberNode(10)), OutputNode>>
              => dataSets[outputKey(DoneNode)].rows = <<[a |-> Num(10)]>>

\* C5: a DATA step whose body is only SET X leaves in its output dataset the
\* rows of X, in order, with the same variables and values.
C5_SetOnlyCopies ==
    (StepDone /\ DoneNode.inputDataSet.name # "" /\ DoneNode.statements = <<>>) =>
        dataSets[outputKey(DoneNode)].rows = dataSets[inputKey(DoneNode)].rows

\* C6: during an iteration a reference to a variable of the input row reads
\* the row's value, and a reference to a variable assigned earlier in the
\* iteration reads the assigned value.
C6_ReferencesSeeRowAndAssignments ==
    pc = "stmt" =>
        /\ \A v \in DOMAIN InputRows[ri] :
              v \notin DOMAIN obs.assigned =>
                  evaluate(VariableNode(v), StmtState) = InputRows[ri][v]
        /\ \A v \in DOMAIN obs.assigned :
              evaluate(VariableNode(v), StmtState) = obs.assigned[v]

\* C7: a variable named in RETAIN holds, at the start of iteration k > 1,
\* the value it held at the end of iteration k - 1.
C7_RetainKeepsValue ==
    (pc = "stmt" /\ si = 1 /\ obs.iters > 1) =>
        \A v \in RetainNames(Body) \cap DOMAIN obs.prevEnd :
            v \notin DOMAIN InputRows[ri] =>
                v \in DOMAIN currentRow /\ currentRow[v] = obs.prevEnd[v]

\* C8: a variable that is not retained, was assigned in iteration k and is
\* not supplied by the input row reads as missing at the start of
\* iteration k + 1.
C8_NonRetainedResetToMissing ==
    (pc = "stmt" /\ si = 1 /\ obs.iters > 1) =>
        \A v \in DOMAIN obs.prevAssigned :
            (v \notin RetainNames(Body) /\ v \notin DOMAIN InputRows[ri]) =>
                TypedMissing(evaluate(VariableNode(v), StmtState))

\* C9: at the entry of every DATA step a reference to a variable that the
\* step's input does not supply reads as missing, whatever earlier steps
\* assigned.
C9_VariablesScopedToStep ==
    (pc = "row" /\ obs.iters = 0) =>
        \A v \in AllNames :
            (\A j \in DOMAIN InputRows : v \notin DOMAIN InputRows[j]) =>
                evaluate(VariableNode(v), StmtState) = NaN

\* the DATA step whose MERGE has ended, by the end of its loop or by a
\* runtime_error thrown inside the loop
MergeEnded == obs.merge = "done" \/ (obs.merge = "threw" /\ obs.mergeInputs # <<>>)
MergeStepNode == IF pc \in {"program", "finished"} THEN program[pi - 1] ELSE program[pi]

\* C10: when MERGE has ended over inputs that hold at most one row per BY
\* key, the output holds as many rows as there are distinct BY keys in the
\* union of the inputs, and exactly one row for each of these keys.
C10_MergeRowPerKey ==
    MergeEnded =>
        LET rows == dataSets[outputKey(MergeStepNode)].rows
            keys == UNION { { byVals(obs.mergeInputs[i][j], byVariables) :
                               j \in DOMAIN obs.mergeInputs[i] } : i \in DOMAIN obs.mergeInputs }
        IN  /\ Len(rows) = Cardinality(keys)
            /\ \A key \in keys :
                  Cardinality({j \in DOMAIN rows : byVals(rows[j], byVariables) = key}) = 1

\* the rows MERGE has put into the output, and the BY key of a row
MergeOutput == dataSets[outputKey(MergeStepNode)].rows
MergeKeyOf(row) == byVals(row, byVariables)
\* the inputs, by position in the MERGE list, that hold a row with this key
InputsWith(key) ==
    { i \in DOMAIN obs.mergeInputs :
        \E j \in DOMAIN obs.mergeInputs[i] : MergeKeyOf(obs.mergeInputs[i][j]) = key }
RowWith(i, key) ==
    obs.mergeInputs[i][CHOOSE j \in DOMAIN obs.mergeInputs[i] :
                          MergeKeyOf(obs.mergeInputs[i][j]) = key]
Latest(S) == CHOOSE i \in S : \A m \in S : m <= i

\* C11: when MERGE has ended, an output row whose BY key occurs in two or
\* more inputs carries in the shared variable v the value of the input that
\* stands latest in the MERGE list.
C11_LaterInputWins ==
    MergeEnded =>
        \A j \in DOMAIN MergeOutput :
            LET key == MergeKeyOf(MergeOutput[j])
            IN  Cardinality(InputsWith(key)) >= 2 =>
                    /\ "v" \in DOMAIN MergeOutput[j]
                    /\ MergeOutput[j]["v"] = RowWith(Latest(InputsWith(key)), key)["v"]

\* C12: at every moment of a MERGE, and after it, the rows of the output
\* are in non-decreasing order of their BY keys.
C12_MergeOutputAscending ==
    (obs.merge # "none" /\ obs.mergeInputs # <<>>) =>
        \A j, m \in DOMAIN MergeOutput :
            j < m => ~KeyLess(MergeKeyOf(MergeOutput[m]), MergeKeyOf(MergeOutput[j]), 1)

\* an output row carries an input row: same BY key, and every value of the
\* input row is the value of some variable of the output row
Carries(o, r) ==
    /\ MergeKeyOf(o) = MergeKeyOf(r)
    /\ \A c \in DOMAIN r : \E c2 \in DOMAIN o : o[c2] = r[c]

\* C13: when MERGE has ended, every row of every input is carried by some
\* row of the output.
C13_MergeLosesNoRow ==
    MergeEnded =>
        \A i \in DOMAIN obs.mergeInputs : \A j \in DOMAIN obs.mergeInputs[i] :
            \E m \in DOMAIN MergeOutput : Carries(MergeOutput[m], obs.mergeInputs[i][j])

\* C14: a DO WHILE / DO UNTIL loop that has been entered is left again.
C14_DoLoopTerminates == [](pc = "doloop" => <>(pc \notin {"doloop", "dobody"}))

\* the statement a DATA step is about to execute is an iterative DO whose
\* BY step evaluates to zero
ZeroStepDoNext ==
    /\ pc = "stmt"
    /\ si <= Len(Body)
    /\ Body[si].node = "Do"
    /\ Body[si].incrementExpr # NoExpr
    /\ toNumber(evaluate(Body[si].incrementExpr, StmtState)) = Num(0)

\* C15: executing an iterative DO whose BY step is zero raises a runtime
\* error (caught by executeProgram), executes no statement of the loop body,
\* and leaves the DATA step: no row is added and the next top-level
\* statement is next.
C15_ZeroStepAborts ==
    [][ZeroStepDoNext =>
          /\ errors' = errors + 1
          /\ obs'.outputExecs = obs.outputExecs
          /\ obs'.assigned = obs.assigned
          /\ dataSets' = dataSets
          /\ pc' = "program"
          /\ pi' = pi + 1]_vars

\* a step was left by a zero-step DO in its second iteration, after its
\* first iteration had emitted a row
C15_Witness ==
    /\ pc = "program"
    /\ pi = 2
    /\ program = <<DataStepNode(DsName("", "out"), DsName("", "in"), ZeroStepBody)>>
    /\ errors = 1
    /\ obs.iters = 2
    /\ Len(dataSets[outputKey(program[1])].rows) = 1

\* the next statement to execute is an IF/THEN/ELSE, at top level or in the
\* body of a DATA step
IfElseNext ==
    \/ pc = "program" /\ pi <= Len(program) /\ program[pi].node = "IfElseIf"
    \/ pc = "stmt" /\ si <= Len(Body) /\ Body[si].node = "IfElseIf"
IfElseNode == IF pc = "program" THEN program[pi] ELSE Body[si]

\* a condition is true when its value is a number other than zero and is
\* not missing
IsTrue(cond) ==
    LET d == toNumber(evaluate(cond, StmtState)) IN d.k = "num" /\ d.n # 0

\* the ELSE IF branches whose condition is true
TrueElseIfs(node) ==
    { k \in DOMAIN node.elseIfBranches : IsTrue(node.elseIfBranches[k].condition) }
FirstOf(S) == CHOOSE k \in S : \A m \in S : k <= m

ExpectedBranch(node) ==
    IF IsTrue(node.condition) THEN <<Branch("then", 0)>>
    ELSE IF TrueElseIfs(node) # {} THEN <<Branch("elseif", FirstOf(TrueElseIfs(node)))>>
    ELSE IF node.elseStatements # <<>> THEN <<Branch("else", 0)>>
    ELSE <<>>

ExpectedEvaluated(node) ==
    IF IsTrue(node.condition) THEN 0
    ELSE IF TrueElseIfs(node) # {} THEN FirstOf(TrueElseIfs(node))
    ELSE Len(node.elseIfBranches)

\* C16: executing an IF/THEN/ELSE enters exactly the branch the conditions
\* select (then, else the first true ELSE IF, else ELSE, else none) and
\* evaluates no ELSE IF condition after the selected one.
C16_IfElseSelectsOneBranch ==
    [][IfElseNext =>
          /\ obs'.entered = ExpectedBranch(IfElseNode)
          /\ obs'.evaluated = ExpectedEvaluated(IfElseNode)]_vars

\* the statement a DATA step is about to execute
StatementNext == pc = "stmt" /\ si <= Len(Body)

\* C17: missing is false.  An IF/THEN whose condition is missing runs no
\* statement of its then-branch, and an assignment of  l and r  or  l or r
\* stores 1 exactly when the truth values of l and r make it true, so
\* m and 1  and  m or 0  with m missing store 0.
C17_MissingIsFalse ==
    [][StatementNext =>
          LET stmt == Body[si]
          IN  /\ (stmt.node = "IfThen" /\ ~IsTrue(stmt.condition)) =>
                    /\ obs'.outputExecs = obs.outputExecs
                    /\ obs'.assigned = obs.assigned
              /\ (stmt.node = "Assignment" /\ stmt.expression.node = "BinaryOp"
                    /\ stmt.expression.op = "and") =>
                    obs'.assigned[stmt.varName] =
                        Bool(IsTrue(stmt.expression.left) /\ IsTrue(stmt.expression.right))
              /\ (stmt.node = "Assignment" /\ stmt.expression.node = "BinaryOp"
                    /\ stmt.expression.op = "or") =>
                    obs'.assigned[stmt.varName] =
                        Bool(IsTrue(stmt.expression.left) \/ IsTrue(stmt.expression.right))]_vars

(***************************************************************************)
(* executeProgram and the errors of its statements.                        *)
(***************************************************************************)
\* executeProgram is over: it returned, or an exception left it
ProgramOver == pc \in {"finished", "terminated"}

\* C18: executeProgram attempts every top-level statement, in source order:
\* when it is over, whatever errors the statements raised, it has gone past
\* the last statement of the program.
C18_EveryStatementAttempted == ProgramOver => pi = Len(program) + 1


(***************************************************************************)
(* KEEP and DROP.                                                          *)
(***************************************************************************)
\* the variables named by the KEEP statements, and by the DROP statements
KeepNames(stmts) ==
    UNION { Range(stmts[j].variables) : j \in {m \in DOMAIN stmts : stmts[m].node = "Keep"} }
DropNames(stmts) ==
    UNION { Range(stmts[j].variables) : j \in {m \in DOMAIN stmts : stmts[m].node = "Drop"} }

\* the variables the statements assign: targets of assignments and loop
\* variables, at any depth
RECURSIVE AssignedNames(_)
AssignedNames(stmts) ==
    UNION { CASE stmts[j].node = "Assignment" -> {stmts[j].varName}
              [] stmts[j].node = "IfThen" -> AssignedNames(stmts[j].thenStatements)
              [] stmts[j].node = "Do" ->
                    {stmts[j].loopVar} \cup AssignedNames(stmts[j].statements)
              [] OTHER -> {} : j \in DOMAIN stmts }

\* the program data vector of the step: the columns of the input and the
\* variables the body assigns
PdvNames == UNION { DOMAIN InputRows[j] : j \in DOMAIN InputRows } \cup AssignedNames(Body)

\* C19: every row emitted by a DATA step with a KEEP list K holds exactly
\* the PDV variables named in K, also when a DROP statement is present; every
\* row emitted by a step with only a DROP list D holds exactly the PDV
\* variables not named in D; wherever the statements stand in the body.
C19_KeepDropProject ==
    (InStep /\ ~hasMerge(program[pi])) =>
        \A j \in DOMAIN obs.emitted :
            LET names == DOMAIN obs.emitted[j].row
            IN  IF KeepNames(Body) # {} THEN names = PdvNames \cap KeepNames(Body)
                ELSE IF DropNames(Body) # {} THEN names = PdvNames \ DropNames(Body)
                ELSE TRUE


(***************************************************************************)
(* Arrays.                                                                 *)
(***************************************************************************)
\* ExecuteStatement runs  <target> = <array>[<number>];  and the array is
\* declared
ArrayReadNext ==
    /\ pc = "stmt"
    /\ si <= Len(Body)
    /\ Body[si].node = "Assignment"
    /\ Body[si].expression.node = "ArrayElement"
    /\ Body[si].expression.arrayName \in DOMAIN arrays
    /\ pc' # pc \/ si' # si

\* the value of a variable of the program data vector: what the row or the
\* variable table holds for it, and missing when neither holds it
PdvValue(st, v) ==
    IF v \in DOMAIN st.currentRow THEN st.currentRow[v]
    ELSE IF v \in DOMAIN st.variables THEN st.variables[v]
    ELSE NaN

\* C20: for an array declared over v1..vn, reading element i with
\* 1 <= i <= n reads variable vi and writing it writes variable vi; an index
\* below 1 or above n raises a runtime error and changes no variable.
C20_ArrayElementIsVariable ==
    [][ArrayReadNext =>
        LET name == Body[si].expression.arrayName
            index == Body[si].expression.index.value.n
            n == Len(arrays[name])
            written == setArrayElement(StmtState, name, index, Num(7))
        IN  IF 1 <= index /\ index <= n
            THEN /\ errors' = errors
                 /\ obs'.assigned[Body[si].varName] = PdvValue(StmtState, arrays[name][index])
                 /\ ~written.error
                 /\ PdvValue(written, arrays[name][index]) = Num(7)
                 /\ \A v \in (DOMAIN currentRow) \ {arrays[name][index]} :
                        written.currentRow[v] = currentRow[v]
            ELSE /\ errors' = errors + 1
                 /\ pc' = "program"
                 /\ currentRow' = currentRow
                 /\ variables' = variables
                 /\ written.error
                 /\ written.currentRow = currentRow
                 /\ written.variables = variables
    ]_vars


(***************************************************************************)
(* The lexer and the line comment.                                         *)
(***************************************************************************)
\* the texts of the tokens returned before EOF_TOKEN
TokenTexts ==
    [j \in 1..(Len(lexer.tokens) - 1) |-> lexer.tokens[j].text]

\* the input holds no block comment and no macro comment
OnlyLineComments == \A j \in DOMAIN lexer.input : lexer.input[j] \notin {"/", "%"}

\* the position after the next semicolon, from i on
RECURSIVE afterSemicolon(_, _)
afterSemicolon(input, i) ==
    IF i > Len(input) THEN i
    ELSE IF input[i] = ";" THEN i + 1
    ELSE afterSemicolon(input, i + 1)

\* the token texts of the input from position i on, when a `*` opens a
\* comment only as the first token of a statement (atStart)
RECURSIVE statementTokens(_, _, _)
statementTokens(input, i, atStart) ==
    IF i > Len(input) THEN <<>>
    ELSE IF input[i] \in {" ", "\n", "\t"} THEN statementTokens(input, i + 1, atStart)
    ELSE IF input[i] = "*" /\ atStart
    THEN statementTokens(input, afterSemicolon(input, i + 1), TRUE)
    ELSE <<input[i]>> \o statementTokens(input, i + 1, input[i] = ";")

\* C21: a `*` is skipped through the next `;` as a line comment only when it
\* is the first token after a `;` or at the start of the buffer; in any other
\* position it is returned as a token and so are the tokens that follow it.
C21_StarCommentOnlyAtStatementStart ==
    (AtEof /\ OnlyLineComments) => TokenTexts = statementTokens(lexer.input, 1, TRUE)


(***************************************************************************)
(* Letter case of dataset and variable names.                              *)
(***************************************************************************)
\* no two of the names differ in letter case only
NoCaseTwins(names) == \A u, v \in names : iequals(u, v) => u = v

\* the statement just executed is  <target> = <variable>;  and a variable
\* of that name in some letter case, other than the target, holds a value
ReadVariableDone ==
    /\ pc = "stmt"
    /\ si > 1
    /\ si - 1 <= Len(Body)
    /\ Body[si - 1].node = "Assignment"
    /\ Body[si - 1].expression.node = "Variable"
    /\ \E u \in DOMAIN variables :
          iequals(u, Body[si - 1].expression.varName) /\ ~iequals(u, Body[si - 1].varName)

\* C22: dataset and variable names are matched case-insensitively: the
\* catalog never holds two datasets, and the row and the variable table
\* never two variables, whose names differ in letter case only, and a
\* reference to a variable in another letter case reads that variable.
C22_NamesMatchIgnoringCase ==
    /\ NoCaseTwins({n[2] : n \in DOMAIN dataSets})
    /\ NoCaseTwins(DOMAIN currentRow)
    /\ NoCaseTwins(DOMAIN variables)
    /\ ReadVariableDone =>
          \A u \in DOMAIN variables :
              iequals(u, Body[si - 1].expression.varName) =>
                  obs.assigned[Body[si - 1].varName] = variables[u]


(***************************************************************************)
(* PROC SORT.                                                              *)
(***************************************************************************)
\* executeProgram runs a PROC SORT step
ProcSortNext ==
    /\ pc = "program"
    /\ pi <= Len(program)
    /\ program[pi].node = "ProcSort"
    /\ pi' = pi + 1

\* the input dataset of the step as it is before the step, the rows of it
\* that pass the WHERE condition, and these rows sorted
SortInputRows ==
    IF mergeKey(program[pi].inputDataSet) \in DOMAIN dataSets
    THEN dataSets[mergeKey(program[pi].inputDataSet)].rows ELSE <<>>
SortFilteredRows ==
    IF program[pi].whereCondition = NoExpr THEN SortInputRows
    ELSE whereFrom(StmtState, SortInputRows, program[pi].whereCondition, 1)
SortedRows == sortFirst(SortFilteredRows, program[pi].byVariables, Len(SortFilteredRows))

\* the name of the dataset the step writes
SortOutputName ==
    mergeKey(IF program[pi].outputDataSet = "" THEN program[pi].inputDataSet
             ELSE program[pi].outputDataSet)

\* the tuple of the BY-variable values of a row
ByTuple(row, by) ==
    [j \in 1..Len(by) |-> IF by[j] \in DOMAIN row THEN <<row[by[j]]>> ELSE <<>>]

\* of the first n rows, those whose BY tuple no earlier row has
RECURSIVE firstOfEachTuple(_, _, _)
firstOfEachTuple(rows, by, n) ==
    IF n = 0 THEN <<>>
    ELSE IF \E m \in 1..(n - 1) : ByTuple(rows[m], by) = ByTuple(rows[n], by)
    THEN firstOfEachTuple(rows, by, n - 1)
    ELSE Append(firstOfEachTuple(rows, by, n - 1), rows[n])

\* C23: after PROC SORT with NODUPKEY the result holds, for each distinct
\* tuple of BY values among the WHERE-filtered input rows, exactly the row
\* that came first in the sorted input; rows whose tuples differ are never
\* duplicates of each other.
C23_NodupkeyKeepsFirstOfEachTuple ==
    [][(ProcSortNext /\ program[pi].nodupkey) =>
          dataSets'[SortOutputName].rows =
              firstOfEachTuple(SortedRows, program[pi].byVariables, Len(SortedRows))]_vars

\* C24: PROC SORT with OUT= naming a dataset other than the input leaves
\* the rows and the row order of the input dataset unchanged, and modifies
\* no dataset but the OUT= dataset.
C24_SortLeavesInputUnchanged ==
    [][(ProcSortNext /\ program[pi].outputDataSet \notin {"", program[pi].inputDataSet}) =>
          /\ dataSets'[mergeKey(program[pi].inputDataSet)].rows = SortInputRows
          /\ \A n \in (DOMAIN dataSets') \ {SortOutputName} :
                n \in DOMAIN dataSets /\ dataSets'[n] = dataSets[n]]_vars


(***************************************************************************)
(* Conversion of a string to a number.                                     *)
(***************************************************************************)
\* the statement just executed is  <target> = "<string>" <op> <number>;
\* with an arithmetic operator
StringArithmeticDone ==
    /\ pc = "stmt"
    /\ si > 1
    /\ si - 1 <= Len(Body)
    /\ Body[si - 1].node = "Assignment"
    /\ Body[si - 1].expression.node = "BinaryOp"
    /\ Body[si - 1].expression.op \in {"+", "-", "*"}
    /\ Body[si - 1].expression.left.node = "String"
    /\ Body[si - 1].expression.right.node = "Number"

\* C25: converting to a number a string that is not a valid number yields
\* numeric missing, not 0: an arithmetic expression with such a string
\* operand evaluates to missing.
C25_InvalidNumberIsMissing ==
    (StringArithmeticDone /\ stodThrows(Body[si - 1].expression.left.value.s)) =>
        obs.assigned[Body[si - 1].varName] = NaN


(***************************************************************************)
(* The PDV.                                                                *)
(***************************************************************************)
\* a variable of that name, in some letter case, is in the PDV
InPdv(name) == \E i \in DOMAIN pdv.pdvVars : iequals(pdv.pdvVars[i].name, name)

\* C26: after any sequence of PDV operations no two PDV variables have
\* names that are equal ignoring letter case, the list of variables and the
\* list of values have the same length, and addVariable with a name that
\* exists in any letter case leaves variables, metadata and values unchanged.
C26_PdvNamesUniqueIgnoringCase ==
    /\ \A i, j \in DOMAIN pdv.pdvVars :
          iequals(pdv.pdvVars[i].name, pdv.pdvVars[j].name) => i = j
    /\ Len(pdv.pdvVars) = Len(pdv.pdvValues)
    /\ \A name \in PdvNamePool, isNumeric \in BOOLEAN :
          InPdv(name) => addVariable(pdv, PdvVar(name, isNumeric)) = pdv

\* the PDV holds a with the value 1 and a second variable, and A is a name
\* that exists in another letter case
C26_Witness ==
    /\ Len(pdv.pdvVars) = 2
    /\ \E i \in DOMAIN pdv.pdvVars :
          pdv.pdvVars[i].name = "a" /\ pdv.pdvValues[i] = Num(1) /\ pdv.pdvVars[i].retained
    /\ InPdv("A")
    /\ addVariable(pdv, PdvVar("A", TRUE)) = pdv

(***************************************************************************)
(* The BY list of a merging DATA step.                                     *)
(***************************************************************************)
\* the BY list that the body of a DATA step declares
stepByVariables(node) ==
    IF \E j \in DOMAIN node.statements : node.statements[j].node = "By"
    THEN node.statements[CHOOSE j \in DOMAIN node.statements :
                            node.statements[j].node = "By"].variables
    ELSE <<>>
\* executeMerge has been called for the DATA step at hand
MergeCalled ==
    /\ obs.merge # "none"
    /\ pi - (IF pc \in {"program", "finished"} THEN 1 ELSE 0) \in DOMAIN program
    /\ MergeStepNode.node = "DataStep"
    /\ hasMerge(MergeStepNode)

\* C27: once the MERGE of a DATA step `merge A B; by k;` has been called,
\* it has not failed for lack of a BY list, and the BY list in effect is
\* the list k that the same step declares, not one left by an earlier
\* statement.
C27_MergeUsesOwnByList ==
    MergeCalled =>
        /\ ~(obs.merge = "threw" /\ obs.mergeInputs = <<>>)
        /\ byVariables = stepByVariables(MergeStepNode)

(***************************************************************************)
(* The output dataset of a DATA step that has completed.                   *)
(***************************************************************************)
EmittedRows == [j \in DOMAIN obs.emitted |-> obs.emitted[j].row]

\* C28: when a DATA step has completed, its output dataset holds exactly
\* the rows that this execution of the step emitted, in their order: rows
\* that the dataset held before the step are not kept.
C28_OutputHoldsOnlyEmittedRows ==
    StepDone => dataSets[outputKey(DoneNode)].rows = EmittedRows

(***************************************************************************)
(* A DATA step whose output dataset is its input dataset.                  *)
(***************************************************************************)
\* the DATA step at hand, in progress or just left
StepAtHand == IF pc \in {"program", "finished"} THEN pi - 1 ELSE pi
SelfStep ==
    /\ StepAtHand \in DOMAIN program
    /\ program[StepAtHand].node = "DataStep"
    /\ ~hasMerge(program[StepAtHand])
    /\ inputKey(program[StepAtHand]) = outputKey(program[StepAtHand])

\* C29: a DATA step whose output dataset is its input dataset is not ended
\* by a crash, each of its iterations reads the row that the dataset held
\* at that position when the step was entered, and it returns after as
\* many iterations as there were rows at entry.
C29_SelfStepReadsRowsAtEntry ==
    SelfStep =>
        /\ pc # "crashed"
        /\ obs.iters <= obs.rowsAtEntry
        /\ obs.read = SubSeq(dataSets[inputKey(program[StepAtHand])].rows, 1, obs.iters)
        /\ pc \in {"program", "finished"} => obs.iters = obs.rowsAtEntry

(***************************************************************************)
(* The loop stack around a top-level DO loop.                              *)
(***************************************************************************)
\* executeDoLoop returns, or an exception of the loop body leaves it
LoopLeft == pc \in {"doloop", "dobody"} /\ pc' = "program"
\* a top-level END statement is executed: every DO loop before it has
\* been left
EndExecuted == pc = "program" /\ pi <= Len(program) /\ program[pi].node = "End" /\ pi' = pi + 1

\* C30: when a DO loop is left, by the return of executeDoLoop or by a
\* runtime error of its body, the loop stack has the depth it had when the
\* loop was entered; and a top-level END statement, which has no open DO,
\* raises the END-without-DO error.
C30_LoopStackBalanced ==
    [][ /\ LoopLeft => Len(loopStack') = obs.depth
        /\ EndExecuted => errors' = errors + 1 ]_vars

=============================================================================
